---- MODULE Spec2Model ----
(***************************************************************************)
(* ChainWatch: the transfer filter chain (TransferFilter) and the          *)
(* 'transfer' handler of ChainWatch.setupEventHandlers that feeds the      *)
(* three sinks (storage, live feed, Telegram notifier).                    *)
(*                                                                         *)
(* Time is Date.now() in milliseconds, counted from an arbitrary origin;   *)
(* the clock only takes the values of TimePoints.  Strings that the code   *)
(* parses (amounts, thresholdAmount, cooldownSeconds) are kept as strings  *)
(* and parsed by ParseFloat / ParseInt.                                    *)
(***************************************************************************)
EXTENDS Integers, Sequences, FiniteSets, TLC

\* ------------------------------------------------------------------ bounds
NumHashes == 4
MaxInflight == 2
NumHandlerHashes == 3
MaxSockets == 2
MaxTimers == 2
MaxScans == 1
NumAlertHashes == 2
MaxAlerts == 2
NumStored == 2
NumClients == 3
NumBlocks == 3
MaxLag == 5

\* ------------------------------------------------------- program constants
\* this.maxCacheSize = 10000 and slice(0, 1000) in the source; scaled down
\* together (the bulk eviction still removes several of the oldest hashes).
maxCacheSize == 3
EvictCount == 2
OneHourMs == 3600000
MsPerSecond == 1000
maxReconnectAttempts == 10
reconnectDelay == 5000
retries == 5
BackoffUnitMs == 1000
\* MAX_EVENTS = 500 in the source; scaled down.
MAX_EVENTS == 3
\* processedBlocks: more than 100 entries lose the 50 oldest; scaled down.
MaxRecentBlocks == 2
DropBlocks == 1
SaveDelay == 1000

\* ------------------------------------------------------------ input domains
Hashes == 1..NumHashes

\* Address strings as they appear in events and in config.json.
AddrStrings == {"0xAA", "0xaa", "0xBB", "0xbb"}
EventAddrs == {"0xAA", "0xaa", "0xBB"}

\* String.prototype.toLowerCase on the address strings.
toLowerCase(a) ==
    CASE a = "0xAA" -> "0xaa"
      [] a = "0xBB" -> "0xbb"
      [] OTHER -> a

\* Amounts as produced by ethers.formatUnits / formatEther.
AmountStrings == {"2.0", "5.0"}

\* JS numbers: an integer or NaN.
Num(v) == [nan |-> FALSE, v |-> v]
NaN == [nan |-> TRUE, v |-> 0]

\* The numeric strings the model uses and the number each one parses to.
NumericStrings == {"0", "5", "10", "60", "7200", "2.0", "5.0"}
NumericValue(s) ==
    CASE s = "0" -> 0
      [] s = "5" -> 5
      [] s = "10" -> 10
      [] s = "60" -> 60
      [] s = "7200" -> 7200
      [] s = "2.0" -> 2
      [] s = "5.0" -> 5
      [] OTHER -> 0

\* parseFloat(x): the number, or NaN for a string that does not start with one.
parseFloat(s) == IF s \in NumericStrings THEN Num(NumericValue(s)) ELSE NaN

\* parseInt(x): the integer part, or NaN.
parseInt(s) == IF s \in NumericStrings THEN Num(NumericValue(s)) ELSE NaN

\* x || 0 on a JS number: NaN and 0 are falsy.
OrZero(x) == IF x.nan \/ x.v = 0 THEN Num(0) ELSE x

\* a < b on JS numbers: false when either is NaN.
JsLess(a, b) == ~a.nan /\ ~b.nan /\ a.v < b.v

\* watchedWallets entries: a plain string, or an object {address, enabled}
\* whose enabled field may be absent.
StrEntry(a) == [kind |-> "string", address |-> a, enabled |-> "absent"]
ObjEntry(a, en) == [kind |-> "object", address |-> a, enabled |-> en]

\* The configurations config.json takes in the model.
Cfg(th, ww, cd) ==
    [thresholdAmount |-> th, watchedWallets |-> ww, cooldownSeconds |-> cd]

ScenarioConfig == Cfg("0", << StrEntry("0xAA") >>, "60")

\* The whole of config.json: the filter's three fields, the token contract
\* and the tracking mode.  A field the file leaves out reads "absent".
WatchConfig(tc, tm, cfg) ==
    [tokenContract |-> tc, trackingMode |-> tm,
     thresholdAmount |-> cfg.thresholdAmount,
     watchedWallets |-> cfg.watchedWallets,
     cooldownSeconds |-> cfg.cooldownSeconds,
     confirmationDepth |-> "absent"]

\* A config.json that also sets confirmationDepth.
WithDepth(obj, d) == [obj EXCEPT !.confirmationDepth = d]

\* this.config = null, before the first loadConfig()
NoConfig == WatchConfig("absent", "absent", Cfg("absent", << >>, "absent"))

Configs ==
    { ScenarioConfig,
      Cfg("5", << >>, "7200"),
      Cfg("5", << ObjEntry("0xaa", "false") >>, "abc"),
      Cfg("abc", << ObjEntry("0xAA", "false"), ObjEntry("0xbb", "true"),
                    ObjEntry("0xBB", "absent") >>, "10"),
      Cfg("0", << >>, "0") }

\* The (from, to) pairs of the transfers the chain delivers.
AddrPairs ==
    { <<"0xAA", "0xBB">>, <<"0xAA", "0xaa">>, <<"0xBB", "0xBB">> }

Events ==
    { [transactionHash |-> h, from |-> p[1], to |-> p[2], amount |-> a] :
        h \in Hashes, p \in AddrPairs, a \in AmountStrings }

\* Values of Date.now() the clock takes.
TimePoints == {1, 10001, 61001, 3600002}

Range(s) == {s[i] : i \in 1..Len(s)}

\* The sinks the 'transfer' handler feeds.
Sinks == {"addEvent", "broadcastTransfer", "sendAlert"}

Min(a, b) == IF a < b THEN a ELSE b

VARIABLES
    config,             \* TransferFilter.config
    processedTxHashes,  \* the Set, as the sequence of its insertion order
    lastAlertTime,      \* the Map wallet -> timestamp
    now,                \* Date.now()
    result,             \* the verdict returned by the last filter() call
                        \* under the current config
    lastHash,           \* the transactionHash of that call's event
    enriching,          \* per hash, handler activations suspended in the
                        \* awaits before the sinks (index.js 258-307)
    alerting,           \* per hash, activations awaiting sendAlert (344)
    dispatched,         \* history: per sink and hash, the calls made with
                        \* the hash since it last entered processedTxHashes
    lastMatched,        \* history: per lower-case address, when it was last
                        \* part of a 'matched' event
    scen,               \* history: progress of the section 8 scenario, -1 once
                        \* the run has left it
    reconnectAttempts,  \* BlockchainListener.reconnectAttempts
    isConnected,        \* BlockchainListener.isConnected
    provider,           \* BlockchainListener.provider: the slot of the
                        \* WebSocketProvider made last, 0 for null
    sockets,            \* per slot, a WebSocketProvider made by connect():
                        \* its websocket, the connect() call that made it,
                        \* and whether subscribe() put listeners on it
    timers,             \* the number of pending setTimeout reconnects
    emitted,            \* the 'connection' statuses emitted by the handler
                        \* that ran last, in order
    failedEmitted,      \* history: status 'failed' has been emitted
    fails,              \* history: the connect() calls that ended without
                        \* success since the last one that succeeded
    watcherConfig,      \* ConfigWatcher.config
    listenerConfig,     \* BlockchainListener.config
    notifierConfig,     \* TelegramNotifier.config
    subs,               \* the listeners on this.provider: the token contracts
                        \* with a log listener, whether 'block' has one, and
                        \* which of them have two listeners or more
    fetching,           \* the tokens whose fetchTokenMetadata(), called by
                        \* updateConfig(), has not settled yet
    tokenMeta,          \* the token that this.tokenDecimals, tokenSymbol and
                        \* tokenName belong to
    scans,              \* the processBlockForEthTransfers() calls that await
                        \* getBlock()
    lastEmit,           \* history: the 'transfer' event emitted by the step
                        \* that ran last (kind "none" if it emitted none)
    lastReload,         \* history: how the last reload of config.json ended
    notifierEnabled,    \* TelegramNotifier.isEnabled (with this.bot set)
    alertCall,          \* per transaction, the sendAlert() call in progress
    alertResult,        \* per transaction, what its last sendAlert() call
                        \* returned and the sendMessage calls it made
    alertCount,         \* TelegramNotifier.alertCount
    events,             \* EventStorage.events (transaction hashes)
    written,            \* the events of the last writeFileSync() call
    saveTimers,         \* per pending timer of saveAsync(), the ms left
    sinceAdd,           \* history: ms since the last addEvent() call, at
                        \* most SaveDelay
    lastAdded,          \* history: the event of the last addEvent() call
    burst,              \* history: the addEvent() calls made since a call
                        \* found no timer pending, that call included; calls
                        \* beyond the second are not counted
    clients,            \* WebSocketBroadcaster.clients
    feed,               \* per dashboard socket: whether it is in
                        \* wss.clients, ws.isAlive, whether a ping awaits its
                        \* pong, and (history) the probe ticks since it
                        \* connected or last answered
    stopped,            \* history: listener.disconnect() has been called
    lastLag,            \* history: how many blocks the chain head was past
                        \* the block of the transfer emitted last
    lastDelay,          \* history: the delay of the reconnect timer set last
                        \* since the attempt counter was reset (0: none)
    evicted,            \* history: the hashes the last filter() call removed
                        \* from the seen-hash set
    processedBlocks,    \* BlockchainListener.processedBlocks, in insertion order
    droppedBlocks,      \* history: the block numbers the last 'block' callback
                        \* removed from processedBlocks
    configChange        \* history: the 'configChange' event the last reload
                        \* emitted (emitted = FALSE: none)

filterVars == <<config, processedTxHashes, lastAlertTime, now, result, lastHash>>
handlerVars == <<enriching, alerting>>
historyVars == <<dispatched, lastMatched, scen>>
\* The state of the components the filter and the handler do not touch.
listenerVars == <<reconnectAttempts, isConnected, provider, sockets, timers,
                  emitted, failedEmitted, fails, lastDelay>>
watcherVars == <<watcherConfig, listenerConfig, notifierConfig, subs, fetching,
                 tokenMeta, scans, lastEmit, lastReload>>
notifierVars == <<notifierEnabled, alertCall, alertResult, alertCount>>
pipelineVars == <<filterVars, handlerVars, historyVars>>
storageVars == <<events, written, saveTimers, sinceAdd, lastAdded, burst>>
feedVars == <<clients, feed>>
shutdownVars == <<stopped>>
cacheVars == <<evicted>>
blockVars == <<processedBlocks, droppedBlocks>>
reloadVars == <<configChange>>
chainVars == <<lastLag, cacheVars, blockVars, reloadVars>>
sideVars == <<storageVars, feedVars, shutdownVars, chainVars>>
coreVars == <<pipelineVars, listenerVars, watcherVars, notifierVars>>
otherVars == <<listenerVars, watcherVars, notifierVars, sideVars>>
vars == <<config, processedTxHashes, lastAlertTime, now, result, lastHash,
          enriching, alerting, dispatched, lastMatched, scen,
          otherVars>>

\* ------------------------------------------------------------ TransferFilter
isDuplicate(seen, txHash) == txHash \in Range(seen)

\* Variant: a full set is cleared instead of losing its oldest hashes.
markProcessed_clearAll(seen, txHash) ==
    LET kept == IF Len(seen) >= maxCacheSize THEN << >> ELSE seen
    IN  IF txHash \in Range(kept) THEN kept ELSE Append(kept, txHash)

\* Variant: a full set loses its oldest hash only.
markProcessed_evictOne(seen, txHash) ==
    LET kept == IF Len(seen) >= maxCacheSize THEN Tail(seen) ELSE seen
    IN  IF txHash \in Range(kept) THEN kept ELSE Append(kept, txHash)

\* markProcessed(txHash): a Set in insertion order; when it is full, its
\* first EvictCount hashes are deleted before txHash is added.
markProcessed(seen, txHash) ==
    LET kept == IF Len(seen) >= maxCacheSize
                THEN SubSeq(seen, EvictCount + 1, Len(seen))
                ELSE seen
    IN  IF txHash \in Range(kept) THEN kept ELSE Append(kept, txHash)

\* Variant: an amount equal to the threshold fails.
checkThreshold_strict(cfg, amount) ==
    LET threshold == OrZero(parseFloat(cfg.thresholdAmount))
        eventAmount == parseFloat(amount)
    IN  IF JsLess(eventAmount, threshold) \/ eventAmount = threshold
        THEN [passed |-> FALSE, reason |-> "below_threshold"]
        ELSE [passed |-> TRUE, reason |-> "none"]

checkThreshold(cfg, amount) ==
    LET threshold == OrZero(parseFloat(cfg.thresholdAmount))
        eventAmount == parseFloat(amount)
    IN  IF JsLess(eventAmount, threshold)
        THEN [passed |-> FALSE, reason |-> "below_threshold"]
        ELSE [passed |-> TRUE, reason |-> "none"]

\* Variant: disabled entries are not left out.
normalizedWatched_all(watchedWallets) ==
    { toLowerCase(watchedWallets[i].address) : i \in 1..Len(watchedWallets) }

\* filter(w => typeof w === 'string' || w.enabled !== false).map(lowercase)
normalizedWatched(watchedWallets) ==
    { toLowerCase(watchedWallets[i].address) :
        i \in { j \in 1..Len(watchedWallets) :
                  watchedWallets[j].kind = "string"
                  \/ watchedWallets[j].enabled # "false" } }

checkWatchedWallets(cfg, from, to) ==
    IF Len(cfg.watchedWallets) = 0
    THEN [passed |-> TRUE, reason |-> "none"]
    ELSE LET fromWatched == toLowerCase(from) \in normalizedWatched(cfg.watchedWallets)
             toWatched == toLowerCase(to) \in normalizedWatched(cfg.watchedWallets)
         IN  IF ~fromWatched /\ ~toWatched
             THEN [passed |-> FALSE, reason |-> "not_watched"]
             ELSE [passed |-> TRUE, reason |-> "none"]

\* lastAlert && (now - lastAlert) < cooldownMs, for one address
inCooldown(alerts, addr, t, cooldownMs) ==
    /\ addr \in DOMAIN alerts
    /\ alerts[addr] # 0
    /\ (t - alerts[addr]) < cooldownMs

\* Variant: cooldownSeconds is compared with milliseconds.
checkCooldown_noMs(cfg, alerts, from, to, t) ==
    LET cooldownSeconds == OrZero(parseInt(cfg.cooldownSeconds)).v
    IN  IF cooldownSeconds = 0
        THEN [passed |-> TRUE, reason |-> "none"]
        ELSE IF \/ inCooldown(alerts, toLowerCase(from), t, cooldownSeconds)
                \/ inCooldown(alerts, toLowerCase(to), t, cooldownSeconds)
             THEN [passed |-> FALSE, reason |-> "cooldown"]
             ELSE [passed |-> TRUE, reason |-> "none"]

checkCooldown(cfg, alerts, from, to, t) ==
    LET cooldownSeconds == OrZero(parseInt(cfg.cooldownSeconds)).v
        cooldownMs == cooldownSeconds * MsPerSecond
    IN  IF cooldownSeconds = 0
        THEN [passed |-> TRUE, reason |-> "none"]
        ELSE IF \/ inCooldown(alerts, toLowerCase(from), t, cooldownMs)
                \/ inCooldown(alerts, toLowerCase(to), t, cooldownMs)
             THEN [passed |-> FALSE, reason |-> "cooldown"]
             ELSE [passed |-> TRUE, reason |-> "none"]

updateCooldown(alerts, from, to, t) ==
    LET keys == DOMAIN alerts \cup {toLowerCase(from), toLowerCase(to)}
        set == [a \in keys |->
                  IF a \in {toLowerCase(from), toLowerCase(to)} THEN t ELSE alerts[a]]
        oneHourAgo == t - OneHourMs
        live == {a \in keys : ~(set[a] < oneHourAgo)}
    IN  [a \in live |-> set[a]]

Verdict(p, ui, r) == [passed |-> p, showInUI |-> ui, reason |-> r]

\* Variant: the watch-list check runs before the threshold check.
filter_watchFirst(cfg, seen, alerts, event, t) ==
    IF isDuplicate(seen, event.transactionHash)
    THEN [verdict |-> Verdict(FALSE, FALSE, "duplicate"),
          seen |-> seen, alerts |-> alerts]
    ELSE
      LET marked == markProcessed(seen, event.transactionHash)
          thresholdResult == checkThreshold(cfg, event.amount)
          watchedResult == checkWatchedWallets(cfg, event.from, event.to)
          cooldownResult == checkCooldown(cfg, alerts, event.from, event.to, t)
      IN  IF ~watchedResult.passed
          THEN [verdict |-> Verdict(FALSE, TRUE, watchedResult.reason),
                seen |-> marked, alerts |-> alerts]
          ELSE IF ~thresholdResult.passed
          THEN [verdict |-> Verdict(FALSE, TRUE, thresholdResult.reason),
                seen |-> marked, alerts |-> alerts]
          ELSE IF ~cooldownResult.passed
          THEN [verdict |-> Verdict(FALSE, TRUE, cooldownResult.reason),
                seen |-> marked, alerts |-> alerts]
          ELSE [verdict |-> Verdict(TRUE, TRUE, "matched"),
                seen |-> marked,
                alerts |-> updateCooldown(alerts, event.from, event.to, t)]

\* Variant: the hash is marked before the duplicate check.
filter_markFirst(cfg, seen, alerts, event, t) ==
    [verdict |-> Verdict(FALSE, FALSE, "duplicate"),
     seen |-> markProcessed(seen, event.transactionHash), alerts |-> alerts]

\* Variant: the hash is marked only when the event passed every check.
filter_markOnPass(cfg, seen, alerts, event, t) ==
    IF isDuplicate(seen, event.transactionHash)
    THEN [verdict |-> Verdict(FALSE, FALSE, "duplicate"),
          seen |-> seen, alerts |-> alerts]
    ELSE
      LET thresholdResult == checkThreshold(cfg, event.amount)
          watchedResult == checkWatchedWallets(cfg, event.from, event.to)
          cooldownResult == checkCooldown(cfg, alerts, event.from, event.to, t)
      IN  IF ~thresholdResult.passed
          THEN [verdict |-> Verdict(FALSE, TRUE, thresholdResult.reason),
                seen |-> seen, alerts |-> alerts]
          ELSE IF ~watchedResult.passed
          THEN [verdict |-> Verdict(FALSE, TRUE, watchedResult.reason),
                seen |-> seen, alerts |-> alerts]
          ELSE IF ~cooldownResult.passed
          THEN [verdict |-> Verdict(FALSE, TRUE, cooldownResult.reason),
                seen |-> seen, alerts |-> alerts]
          ELSE [verdict |-> Verdict(TRUE, TRUE, "matched"),
                seen |-> markProcessed(seen, event.transactionHash),
                alerts |-> updateCooldown(alerts, event.from, event.to, t)]

\* Variant: an event blocked by the cooldown restarts the cooldown.
filter_extendCooldown(cfg, seen, alerts, event, t) ==
    IF isDuplicate(seen, event.transactionHash)
    THEN [verdict |-> Verdict(FALSE, FALSE, "duplicate"),
          seen |-> seen, alerts |-> alerts]
    ELSE
      LET marked == markProcessed(seen, event.transactionHash)
          thresholdResult == checkThreshold(cfg, event.amount)
          watchedResult == checkWatchedWallets(cfg, event.from, event.to)
          cooldownResult == checkCooldown(cfg, alerts, event.from, event.to, t)
      IN  IF ~thresholdResult.passed
          THEN [verdict |-> Verdict(FALSE, TRUE, thresholdResult.reason),
                seen |-> marked, alerts |-> alerts]
          ELSE IF ~watchedResult.passed
          THEN [verdict |-> Verdict(FALSE, TRUE, watchedResult.reason),
                seen |-> marked, alerts |-> alerts]
          ELSE IF ~cooldownResult.passed
          THEN [verdict |-> Verdict(FALSE, TRUE, cooldownResult.reason),
                seen |-> marked,
                alerts |-> updateCooldown(alerts, event.from, event.to, t)]
          ELSE [verdict |-> Verdict(TRUE, TRUE, "matched"),
                seen |-> marked,
                alerts |-> updateCooldown(alerts, event.from, event.to, t)]

\* filter(event): the verdict and the filter's two caches after the call.
filter(cfg, seen, alerts, event, t) ==
    IF isDuplicate(seen, event.transactionHash)
    THEN [verdict |-> Verdict(FALSE, FALSE, "duplicate"),
          seen |-> seen, alerts |-> alerts]
    ELSE
      LET marked == markProcessed(seen, event.transactionHash)
          thresholdResult == checkThreshold(cfg, event.amount)
          watchedResult == checkWatchedWallets(cfg, event.from, event.to)
          cooldownResult == checkCooldown(cfg, alerts, event.from, event.to, t)
      IN  IF ~thresholdResult.passed
          THEN [verdict |-> Verdict(FALSE, TRUE, thresholdResult.reason),
                seen |-> marked, alerts |-> alerts]
          ELSE IF ~watchedResult.passed
          THEN [verdict |-> Verdict(FALSE, TRUE, watchedResult.reason),
                seen |-> marked, alerts |-> alerts]
          ELSE IF ~cooldownResult.passed
          THEN [verdict |-> Verdict(FALSE, TRUE, cooldownResult.reason),
                seen |-> marked, alerts |-> alerts]
          ELSE [verdict |-> Verdict(TRUE, TRUE, "matched"),
                seen |-> marked,
                alerts |-> updateCooldown(alerts, event.from, event.to, t)]

\* ------------------------------------------------------- BlockchainListener
SocketSlots == 1..MaxSockets

\* A slot no live WebSocketProvider occupies.
FreeSlot == [sock |-> "none", call |-> "none", subscribed |-> FALSE]

\* The slots are given up once nothing can happen on them any more: the
\* websocket is closed and the connect() call has returned (or will never
\* return); the slot of this.provider is kept.
Collect(socks, prov) ==
    [c \in SocketSlots |->
        IF /\ c # prov
           /\ socks[c].sock \in {"closed", "closedAfterOpen"}
           /\ socks[c].call \in {"ok", "failed", "hung"}
        THEN FreeSlot ELSE socks[c]]

\* The slot a new WebSocketProvider takes, 0 if the model has none left.
NewSlot(socks) ==
    IF \E c \in SocketSlots : socks[c] = FreeSlot
    THEN CHOOSE c \in SocketSlots :
           socks[c] = FreeSlot /\ \A d \in SocketSlots : socks[d] = FreeSlot => c <= d
    ELSE 0

\* Variant: every reconnect timer is set with the base delay.
attemptReconnect_fixed(attempts, pending) ==
    IF attempts >= maxReconnectAttempts
    THEN [attempts |-> attempts, timers |-> pending, emit |-> <<"failed">>,
          delay |-> 0]
    ELSE [attempts |-> attempts + 1, timers |-> pending + 1, emit |-> << >>,
          delay |-> reconnectDelay]

\* attemptReconnect(): the counter, the pending timers, the status emitted
\* and the delay of the timer it sets (0: it sets none).
attemptReconnect(attempts, pending) ==
    IF attempts >= maxReconnectAttempts
    THEN [attempts |-> attempts, timers |-> pending, emit |-> <<"failed">>,
          delay |-> 0]
    ELSE [attempts |-> attempts + 1, timers |-> pending + 1, emit |-> << >>,
          delay |-> reconnectDelay * (attempts + 1)]

\* No listener on the provider, no event emitted, no sendAlert() running.
NoSubs == [tokens |-> {}, eth |-> FALSE, dupTokens |-> {}, dupEth |-> FALSE]
NoEmit == [kind |-> "none", contract |-> "none", meta |-> "none"]
NoChange == [emitted |-> FALSE, changedFields |-> {}]
NoCall == [phase |-> "idle", attempt |-> 0, error |-> "none", delay |-> 0]
NoResult == [result |-> "none", sends |-> 0]
AlertHashes == 1..NumAlertHashes

\* --------------------------------------------------------------- the actions
NoVerdict == Verdict(FALSE, FALSE, "none")

Ev(h, from, to, amount) ==
    [transactionHash |-> h, from |-> from, to |-> to, amount |-> amount]

\* The events of the section 8 scenario.
Event1 == Ev(1, "0xAA", "0xBB", "5.0")
Event3 == Ev(2, "0xAA", "0xBB", "5.0")
Event4 == Ev(3, "0xAA", "0xBB", "5.0")

\* The pipeline before its first event.
InitPipeline ==
    /\ processedTxHashes = << >>
    /\ lastAlertTime = << >>
    /\ now = 1
    /\ result = NoVerdict
    /\ lastHash = 0
    /\ enriching = [h \in Hashes |-> 0]
    /\ alerting = [h \in Hashes |-> 0]
    /\ dispatched = [s \in Sinks |-> [h \in Hashes |-> 0]]
    /\ lastMatched = << >>
    /\ scen = IF config = ScenarioConfig THEN 0 ELSE -1

\* The notifier before its first alert.
InitNotifier ==
    /\ notifierEnabled = FALSE
    /\ alertCall = [h \in AlertHashes |-> NoCall]
    /\ alertResult = [h \in AlertHashes |-> NoResult]
    /\ alertCount = 0

\* The store after initialize() has created its file.
InitStorage ==
    /\ events = << >>
    /\ written = << >>
    /\ saveTimers = {}
    /\ sinceAdd = SaveDelay
    /\ lastAdded = 0
    /\ burst = 0

\* A dashboard socket that is not connected.
Sockets == 1..NumClients
NoSocket == [status |-> "absent", isAlive |-> "undefined", pinged |-> FALSE,
             silent |-> 0]

\* The live feed before its first subscriber.
InitFeed ==
    /\ clients = {}
    /\ feed = [c \in Sockets |-> NoSocket]

InitSide ==
    /\ InitStorage
    /\ InitFeed
    /\ stopped = FALSE
    /\ lastLag = 0
    /\ evicted = {}
    /\ processedBlocks = << >>
    /\ droppedBlocks = {}
    /\ configChange = NoChange

Init ==
    /\ config \in Configs
    /\ InitPipeline
    /\ InitNotifier
    /\ InitSide
    /\ reconnectAttempts = 0
    /\ isConnected = FALSE
    /\ provider = 0
    /\ sockets = [c \in SocketSlots |-> FreeSlot]
    /\ timers = 0
    /\ emitted = << >>
    /\ failedEmitted = FALSE
    /\ fails = 0
    /\ lastDelay = 0
    /\ watcherConfig = NoConfig
    /\ listenerConfig = NoConfig
    /\ notifierConfig = NoConfig
    /\ subs = NoSubs
    /\ fetching = {}
    /\ tokenMeta = "default"
    /\ scans = 0
    /\ lastEmit = NoEmit
    /\ lastReload = "none"

\* Date.now() moves on.
Tick ==
    /\ \E t \in TimePoints : t > now /\ now' = t
    /\ UNCHANGED <<config, processedTxHashes, lastAlertTime, result, lastHash,
                   handlerVars, historyVars, otherVars>>

\* The history kept along a filter() call with verdict v.
FilterHistory(event, v) ==
    LET h == event.transactionHash
        touched == {toLowerCase(event.from), toLowerCase(event.to)}
    IN  /\ dispatched' =
             [s \in Sinks |-> [g \in Hashes |->
                IF g = h /\ v.reason # "duplicate" THEN 0
                ELSE IF ~isDuplicate(processedTxHashes', g) THEN 0
                ELSE dispatched[s][g]]]
        /\ lastMatched' =
             IF v.reason = "matched"
             THEN [a \in DOMAIN lastMatched \cup touched |->
                     IF a \in touched THEN now ELSE lastMatched[a]]
             ELSE lastMatched
        /\ scen' =
             CASE scen = 0 /\ event = Event1 /\ now = 1 -> 1
               [] scen = 1 /\ event = Event1 /\ now = 1 -> 2
               [] scen = 2 /\ event = Event3 /\ now = 10001 -> 3
               [] scen = 3 /\ event = Event4 /\ now = 61001 -> 4
               [] OTHER -> -1

\* this.filter.filter(event): the state of the filter after the call.
FilterStep(event) ==
    LET r == filter(config, processedTxHashes, lastAlertTime, event, now)
    IN  /\ result' = r.verdict
        /\ lastHash' = event.transactionHash
        /\ processedTxHashes' = r.seen
        /\ lastAlertTime' = r.alerts
        /\ FilterHistory(event, r.verdict)
        /\ UNCHANGED <<config, now>>

\* TransferFilter.filter(event), called on its own.
FilterCall(event) ==
    /\ FilterStep(event)
    /\ UNCHANGED <<handlerVars, otherVars>>

\* TransferFilter.updateConfig(newConfig)
FilterUpdateConfig(newConfig) ==
    /\ newConfig # config
    /\ config' = newConfig
    /\ result' = NoVerdict
    /\ lastHash' = 0
    /\ scen' = -1
    /\ UNCHANGED <<processedTxHashes, lastAlertTime, now, handlerVars,
                   dispatched, lastMatched, otherVars>>

NextFilter ==
    \/ Tick
    \/ \E event \in Events : FilterCall(event)
    \/ \E newConfig \in Configs : FilterUpdateConfig(newConfig)

SpecFilter == Init /\ [][NextFilter]_vars

\* filter(event) on its own, with the hashes it removes from the seen-hash
\* set recorded.
CacheCall(event) ==
    /\ FilterStep(event)
    /\ evicted' = Range(processedTxHashes) \ Range(processedTxHashes')
    /\ UNCHANGED <<handlerVars, listenerVars, watcherVars, notifierVars,
                   storageVars, feedVars, shutdownVars, lastLag, blockVars,
                   reloadVars>>

NextCache ==
    \/ Tick
    \/ \E event \in Events : CacheCall(event)

SpecCache == Init /\ [][NextCache]_vars

\* ------------------------------------------------- the 'transfer' handler
Inflight ==
    LET RECURSIVE Sum(_)
        Sum(S) == IF S = {} THEN 0
                  ELSE LET h == CHOOSE x \in S : TRUE
                       IN  enriching[h] + alerting[h] + Sum(S \ {h})
    IN  Sum(Hashes)

\* Variant: the handler takes the next event only when no sendAlert() call is
\* pending.
OnTransfer_afterAlerts(event) ==
    LET r == filter(config, processedTxHashes, lastAlertTime, event, now)
        h == event.transactionHash
    IN  /\ Inflight < MaxInflight
        /\ \A g \in Hashes : alerting[g] = 0
        /\ FilterStep(event)
        /\ enriching' =
             IF r.verdict.reason = "duplicate" THEN enriching
             ELSE IF ~r.verdict.passed THEN enriching
             ELSE [enriching EXCEPT ![h] = @ + 1]
        /\ UNCHANGED alerting

\* Variant: only the 'duplicate' return is taken; every other verdict goes on
\* to the sinks.
OnTransfer_feedAll(event) ==
    LET r == filter(config, processedTxHashes, lastAlertTime, event, now)
        h == event.transactionHash
    IN  /\ Inflight < MaxInflight
        /\ FilterStep(event)
        /\ enriching' =
             IF r.verdict.reason = "duplicate" THEN enriching
             ELSE [enriching EXCEPT ![h] = @ + 1]
        /\ UNCHANGED alerting

\* eventEmitter.on('transfer', ...) up to its first await: the filter, the
\* two early returns, and the suspension in categorize().
OnTransfer(event) ==
    LET r == filter(config, processedTxHashes, lastAlertTime, event, now)
        h == event.transactionHash
    IN  /\ Inflight < MaxInflight
        /\ FilterStep(event)
        /\ enriching' =
             IF r.verdict.reason = "duplicate" THEN enriching
             ELSE IF ~r.verdict.passed THEN enriching
             ELSE [enriching EXCEPT ![h] = @ + 1]
        /\ UNCHANGED alerting

\* Variant: the alert is sent before the event is stored and broadcast.
SinkOrder_alertFirst == <<"sendAlert", "addEvent", "broadcastTransfer">>

\* The order in which the handler calls the sinks (lines 328, 331, 344).
SinkOrder == <<"addEvent", "broadcastTransfer", "sendAlert">>

\* The sinks whose call can throw into the handler.  storage.addEvent has no
\* throwing statement (the file is written later, by save(), inside its own
\* try/catch) and sendAlert catches the failures of bot.sendMessage;
\* broadcast() runs JSON.stringify and client.send without a try.
MayThrow == {"broadcastTransfer"}

\* The calls the handler makes, when the sinks of thrown throw, until it
\* ends or suspends: no statement of lines 328-344 is inside a try, so the
\* first exception ends the handler, and sendAlert is awaited.
SinkCalls(order, thrown) ==
    LET stops == {i \in 1..Len(order) :
                    order[i] \in thrown \/ order[i] = "sendAlert"}
        last == IF stops = {} THEN Len(order)
                ELSE CHOOSE i \in stops : \A j \in stops : i <= j
    IN  SubSeq(order, 1, last)

\* The sinks the handler calls once the awaited sendAlert has returned.
AfterAlert(order) ==
    LET i == CHOOSE j \in 1..Len(order) : order[j] = "sendAlert"
    IN  SubSeq(order, i + 1, Len(order))

\* The handler resumes after its awaits: recentEvents.push, storage.addEvent,
\* wsServer.broadcastTransfer, and the call of notifier.sendAlert.
Dispatch(h) ==
    /\ enriching[h] > 0
    /\ \E thrown \in SUBSET MayThrow :
         LET calls == SinkCalls(SinkOrder, thrown)
             reached == Range(calls) \ thrown
         IN  /\ enriching' = [enriching EXCEPT ![h] = @ - 1]
             /\ alerting' = IF "sendAlert" \in reached
                            THEN [alerting EXCEPT ![h] = @ + 1]
                            ELSE alerting
             /\ dispatched' =
                  [s \in Sinks |->
                     IF s \in Range(calls) /\ isDuplicate(processedTxHashes, h)
                     THEN [dispatched[s] EXCEPT ![h] = Min(@ + 1, 2)]
                     ELSE dispatched[s]]
    /\ UNCHANGED <<filterVars, lastMatched, scen, otherVars>>

\* sendAlert returns; the handler goes on to its end.
AlertReturns(h) ==
    /\ alerting[h] > 0
    /\ alerting' = [alerting EXCEPT ![h] = @ - 1]
    /\ dispatched' =
         [s \in Sinks |->
            IF s \in Range(AfterAlert(SinkOrder)) /\ isDuplicate(processedTxHashes, h)
            THEN [dispatched[s] EXCEPT ![h] = Min(@ + 1, 2)]
            ELSE dispatched[s]]
    /\ UNCHANGED <<filterVars, enriching, lastMatched, scen, otherVars>>

Next ==
    \/ \E event \in Events : OnTransfer(event) /\ UNCHANGED otherVars
    \/ \E h \in Hashes : Dispatch(h)
    \/ \E h \in Hashes : AlertReturns(h)

Spec == Init /\ [][Next]_vars

\* The handler on its own: the deliveries of a few transactions under the
\* two configurations that between them produce every verdict.
HandlerConfigs ==
    { Cfg("5", << >>, "7200"),
      Cfg("5", << ObjEntry("0xaa", "false") >>, "abc") }

HandlerEvents == {e \in Events : e.transactionHash <= NumHandlerHashes}

InitHandler == Init /\ config \in HandlerConfigs

NextHandler ==
    \/ \E event \in HandlerEvents : OnTransfer(event) /\ UNCHANGED otherVars
    \/ \E h \in Hashes : Dispatch(h)
    \/ \E h \in Hashes : AlertReturns(h)

SpecHandler == InitHandler /\ [][NextHandler]_vars

\* ------------------------------------------- the listener's connection
\* connect() up to its await of getNetwork(): a new WebSocketProvider, with
\* its 'open', 'close' and 'error' handlers, replaces this.provider; the
\* provider it replaces is neither destroyed nor stripped of its handlers.
ConnectCall ==
    LET kept == Collect(sockets, 0)
        c == NewSlot(kept)
    IN  /\ c # 0
        /\ sockets' = [kept EXCEPT ![c] = [sock |-> "connecting",
                                          call |-> "network",
                                          subscribed |-> FALSE]]
        /\ provider' = c

\* The effect of a handler that calls attemptReconnect() after emitting
\* the statuses of first.
Reconnecting(first) ==
    LET r == attemptReconnect(reconnectAttempts, timers)
    IN  /\ r.timers <= MaxTimers
        /\ reconnectAttempts' = r.attempts
        /\ timers' = r.timers
        /\ emitted' = first \o r.emit
        /\ failedEmitted' = (failedEmitted \/ r.emit # << >>)
        /\ lastDelay' = IF r.delay = 0 THEN lastDelay ELSE r.delay

\* initialize(): await this.listener.connect()
StartConnect ==
    /\ provider = 0
    /\ ConnectCall
    /\ emitted' = << >>
    /\ UNCHANGED <<reconnectAttempts, isConnected, timers, failedEmitted, fails,
                   lastDelay>>
    /\ UNCHANGED <<pipelineVars, watcherVars, notifierVars, sideVars>>

\* The setTimeout callback of attemptReconnect(): await this.connect()
TimerFires ==
    /\ timers > 0
    /\ timers' = timers - 1
    /\ ConnectCall
    /\ emitted' = << >>
    /\ UNCHANGED <<reconnectAttempts, isConnected, failedEmitted, fails, lastDelay>>
    /\ UNCHANGED <<pipelineVars, watcherVars, notifierVars, sideVars>>

\* websocket.on('open')
SocketOpen(c) ==
    /\ sockets[c].sock = "connecting"
    /\ sockets' = [sockets EXCEPT ![c].sock = "open"]
    /\ isConnected' = TRUE
    /\ reconnectAttempts' = 0
    /\ lastDelay' = 0
    /\ emitted' = <<"connected">>
    /\ UNCHANGED <<provider, timers, failedEmitted, fails>>
    /\ UNCHANGED <<pipelineVars, watcherVars, notifierVars, sideVars>>

\* websocket.on('error')
SocketError(c) ==
    /\ sockets[c].sock \in {"connecting", "open"}
    /\ emitted' = <<"error">>
    /\ UNCHANGED <<reconnectAttempts, isConnected, provider, sockets, timers,
                   failedEmitted, fails, lastDelay>>
    /\ UNCHANGED <<pipelineVars, watcherVars, notifierVars, sideVars>>

\* websocket.on('close').  A getNetwork() still pending on the socket either
\* rejects later (settles) or never returns.
SocketClose(c, settles) ==
    LET hangs == sockets[c].call = "network" /\ ~settles
        closed == [sockets EXCEPT
                     ![c].sock = IF sockets[c].sock = "open"
                                 THEN "closedAfterOpen" ELSE "closed",
                     ![c].call = IF hangs THEN "hung" ELSE @]
    IN  /\ sockets[c].sock \in {"connecting", "open"}
        /\ (sockets[c].call # "network" => settles)
        /\ isConnected' = FALSE
        /\ Reconnecting(<<"disconnected">>)
        /\ sockets' = Collect(closed, provider)
        /\ fails' = IF hangs THEN Min(fails + 1, maxReconnectAttempts + 1)
                    ELSE fails
        /\ UNCHANGED provider
        /\ UNCHANGED <<pipelineVars, watcherVars, notifierVars, sideVars>>

\* getNetwork() resolves: connect() goes on to fetchTokenMetadata().
NetworkResolves(c) ==
    /\ sockets[c].call = "network"
    /\ sockets[c].sock = "open"
    /\ sockets' = [sockets EXCEPT ![c].call = "metadata"]
    /\ emitted' = << >>
    /\ UNCHANGED <<reconnectAttempts, isConnected, provider, timers,
                   failedEmitted, fails, lastDelay>>
    /\ UNCHANGED <<pipelineVars, watcherVars, notifierVars, sideVars>>

\* getNetwork() rejects: the catch of connect() emits 'error', calls
\* attemptReconnect() and returns false.
NetworkRejects(c) ==
    /\ sockets[c].call = "network"
    /\ Reconnecting(<<"error">>)
    /\ sockets' = Collect([sockets EXCEPT ![c].call = "failed"], provider)
    /\ fails' = Min(fails + 1, maxReconnectAttempts + 1)
    /\ UNCHANGED <<isConnected, provider>>
    /\ UNCHANGED <<pipelineVars, watcherVars, notifierVars, sideVars>>

\* subscribe(): listeners are put on this.provider unless it is null or
\* this.isConnected is false.
subscribe(socks, prov, connected) ==
    IF prov = 0 \/ ~connected THEN socks
    ELSE [socks EXCEPT ![prov].subscribed = TRUE]

\* fetchTokenMetadata() settles (it catches its own errors): connect() returns
\* true and its caller calls subscribe().
MetadataDone(c) ==
    /\ sockets[c].call = "metadata"
    /\ sockets' = Collect(subscribe([sockets EXCEPT ![c].call = "ok"],
                                    provider, isConnected), provider)
    /\ fails' = 0
    /\ emitted' = << >>
    /\ UNCHANGED <<reconnectAttempts, isConnected, provider, timers, failedEmitted,
                   lastDelay>>
    /\ UNCHANGED <<pipelineVars, watcherVars, notifierVars, sideVars>>

NextListener ==
    \/ StartConnect
    \/ TimerFires
    \/ \E c \in SocketSlots : SocketOpen(c)
    \/ \E c \in SocketSlots : SocketError(c)
    \/ \E c \in SocketSlots : \E settles \in BOOLEAN : SocketClose(c, settles)
    \/ \E c \in SocketSlots : NetworkResolves(c)
    \/ \E c \in SocketSlots : NetworkRejects(c)
    \/ \E c \in SocketSlots : MetadataDone(c)

InitListener == Init /\ config = ScenarioConfig

SpecListener == InitListener /\ [][NextListener]_vars

\* The connection handling in the runs in which a getNetwork() that is
\* pending when its websocket closes never returns; the websocket 'error'
\* handler, which only emits a status, is left out.
NextBackoff ==
    \/ StartConnect
    \/ TimerFires
    \/ \E c \in SocketSlots : SocketOpen(c)
    \/ \E c \in SocketSlots : SocketClose(c, sockets[c].call # "network")
    \/ \E c \in SocketSlots : NetworkResolves(c)
    \/ \E c \in SocketSlots : NetworkRejects(c)
    \/ \E c \in SocketSlots : MetadataDone(c)

SpecBackoff == InitListener /\ [][NextBackoff]_vars

\* ------------------------------------------------------------ shutdown
\* provider.removeAllListeners() and provider.destroy(): the provider's
\* subscriptions go and its websocket is closed; the 'open', 'close' and
\* 'error' handlers that connect() put on the websocket stay.
Detach(socks, prov) ==
    IF prov = 0 THEN socks ELSE [socks EXCEPT ![prov].subscribed = FALSE]

\* listener.disconnect(), called by the shutdown handler
Disconnect ==
    /\ ~stopped
    /\ stopped' = TRUE
    /\ sockets' = Detach(sockets, provider)
    /\ provider' = 0
    /\ isConnected' = FALSE
    /\ emitted' = <<"disconnected">>
    /\ subs' = NoSubs
    /\ UNCHANGED <<reconnectAttempts, timers, failedEmitted, fails, lastDelay>>
    /\ UNCHANGED <<pipelineVars, notifierVars, storageVars, feedVars, chainVars,
                   watcherConfig, listenerConfig, notifierConfig, fetching,
                   tokenMeta, scans, lastEmit, lastReload>>

NextShutdown ==
    \/ Disconnect
    \/ TimerFires
    \/ \E c \in SocketSlots : SocketOpen(c)
    \/ \E c \in SocketSlots : SocketError(c)
    \/ \E c \in SocketSlots : \E settles \in BOOLEAN : SocketClose(c, settles)
    \/ \E c \in SocketSlots : NetworkResolves(c)
    \/ \E c \in SocketSlots : NetworkRejects(c)
    \/ \E c \in SocketSlots : MetadataDone(c)

\* ------------------------------------------------ the configuration reload
\* The token contracts config.json names.
Tokens == {"0xT1", "0xT2"}

\* A tokenContract that is not a string (the JSON number 12345): it is
\* truthy, ethers.isAddress() is false for it and new ethers.Contract()
\* throws for it.
BadToken == "12345"

\* What the watcher finds at the path of config.json: no file, a file that
\* JSON.parse rejects, or a parsed object.
JsonFile(obj) == [kind |-> "json", obj |-> obj]
MissingFile == [kind |-> "missing", obj |-> NoConfig]
GarbageFile == [kind |-> "garbage", obj |-> NoConfig]

\* A config.json for native transfers only: trackingMode 'eth' and an empty
\* tokenContract.
EthOnlyFile == JsonFile(WatchConfig("", "eth", Cfg("5", << >>, "60")))

FileContents ==
    { MissingFile, GarbageFile,
      JsonFile(WatchConfig("0xT1", "token", Cfg("0", << >>, "0"))),
      JsonFile(WithDepth(WatchConfig("0xT2", "token", Cfg("0", << >>, "0")), "5")),
      JsonFile(WatchConfig("0xT1", "eth", ScenarioConfig)),
      JsonFile(WatchConfig("0xT2", "absent", Cfg("absent", << >>, "absent"))),
      EthOnlyFile,
      JsonFile(WatchConfig("absent", "token", Cfg("5", << StrEntry("0xBB") >>, "10"))) }

\* validateConfig(config): throws when tokenContract is missing or falsy,
\* otherwise fills in the defaults of the optional fields.
validateConfig(obj) ==
    [ok |-> obj.tokenContract \notin {"absent", ""},
     config |-> [obj EXCEPT
                   !.thresholdAmount = IF @ = "absent" THEN "0" ELSE @,
                   !.cooldownSeconds = IF @ = "absent" THEN "0" ELSE @,
                   !.confirmationDepth = IF @ = "absent" THEN "0" ELSE @]]

\* Variant: the parsed object is stored before it is validated.
loadConfig_storeFirst(file, current) ==
    IF file.kind = "missing"
    THEN [stored |-> current, returned |-> current, isNull |-> TRUE]
    ELSE IF file.kind = "garbage"
    THEN [stored |-> current, returned |-> current, isNull |-> FALSE]
    ELSE IF ~validateConfig(file.obj).ok
    THEN [stored |-> file.obj, returned |-> file.obj, isNull |-> FALSE]
    ELSE [stored |-> validateConfig(file.obj).config,
          returned |-> validateConfig(file.obj).config, isNull |-> FALSE]

\* loadConfig(): this.config after the call and the value returned.  A
\* missing file returns null; an exception of JSON.parse or validateConfig
\* is caught and the previous this.config is returned.
loadConfig(file, current) ==
    IF file.kind = "missing"
    THEN [stored |-> current, returned |-> current, isNull |-> TRUE]
    ELSE IF file.kind = "garbage"
    THEN [stored |-> current, returned |-> current, isNull |-> FALSE]
    ELSE IF ~validateConfig(file.obj).ok
    THEN [stored |-> current, returned |-> current, isNull |-> FALSE]
    ELSE [stored |-> validateConfig(file.obj).config,
          returned |-> validateConfig(file.obj).config, isNull |-> FALSE]

\* The configurations a successful startup leaves in the watcher.
WatchConfigs ==
    { validateConfig(f.obj).config :
        f \in {g \in FileContents : g.kind = "json" /\ validateConfig(g.obj).ok} }

\* this.config.trackingMode || 'all'
trackingMode(cfg) ==
    IF cfg.trackingMode \in {"absent", ""} THEN "all" ELSE cfg.trackingMode

\* subscribe() on a connected provider: a log listener for the token contract
\* in the modes 'token' and 'all' (skipped when the address is not valid), a
\* 'block' listener in the modes 'eth' and 'all'.  provider.on() adds a
\* listener; it removes none.
listenerSubscribe(cfg, sb) ==
    LET token == trackingMode(cfg) \in {"token", "all"}
                 /\ cfg.tokenContract \in Tokens
        eth == trackingMode(cfg) \in {"eth", "all"}
    IN  [tokens |-> IF token THEN sb.tokens \cup {cfg.tokenContract} ELSE sb.tokens,
         eth |-> sb.eth \/ eth,
         dupTokens |-> IF token /\ cfg.tokenContract \in sb.tokens
                       THEN sb.dupTokens \cup {cfg.tokenContract}
                       ELSE sb.dupTokens,
         dupEth |-> sb.dupEth \/ (eth /\ sb.eth)]

\* BlockchainListener.updateConfig(newConfig) up to its first await:
\* this.config is replaced; if the token or the mode changed, every listener
\* of the provider is removed and fetchTokenMetadata() starts for the new
\* token.
updateConfig(cfg, newConfig, sb, ft, pb) ==
    IF cfg.tokenContract # newConfig.tokenContract
       \/ cfg.trackingMode # newConfig.trackingMode
    THEN [config |-> newConfig, subs |-> NoSubs,
          fetching |-> ft \cup {newConfig.tokenContract}, blocks |-> << >>]
    ELSE [config |-> newConfig, subs |-> sb, fetching |-> ft, blocks |-> pb]

\* Variant: the handler leaves out notifier.updateConfig.
OnConfigChange_noNotifier(newConfig) ==
    LET u == updateConfig(listenerConfig, newConfig, subs, fetching, processedBlocks)
    IN  /\ listenerConfig' = u.config
        /\ subs' = u.subs
        /\ fetching' = u.fetching
        /\ processedBlocks' = u.blocks
        /\ config' = newConfig
        /\ notifierConfig' = notifierConfig

\* eventEmitter.on('configChange', ...): listener.updateConfig (not awaited),
\* filter.updateConfig and notifier.updateConfig, in one turn.
OnConfigChange(newConfig) ==
    LET u == updateConfig(listenerConfig, newConfig, subs, fetching, processedBlocks)
    IN  /\ listenerConfig' = u.config
        /\ subs' = u.subs
        /\ fetching' = u.fetching
        /\ processedBlocks' = u.blocks
        /\ config' = newConfig
        /\ notifierConfig' = newConfig

\* How a reload of the file ended.
Outcome(file) ==
    IF file.kind = "missing" THEN "missing"
    ELSE IF file.kind = "json" /\ validateConfig(file.obj).ok THEN "accepted"
    ELSE "rejected"

\* getChangedFields(oldConfig, newConfig): the keys whose values differ.
getChangedFields(oldConfig, newConfig) ==
    {key \in DOMAIN oldConfig \cup DOMAIN newConfig :
       \/ key \notin DOMAIN oldConfig
       \/ key \notin DOMAIN newConfig
       \/ oldConfig[key] # newConfig[key]}

\* The body of the debounce timer of handleConfigChange(): oldConfig is a
\* copy of this.config, newConfig is what loadConfig() returns, and the
\* 'configChange' event is emitted unless that is null.
handleConfigChange(file, current) ==
    LET l == loadConfig(file, current)
    IN  IF l.isNull THEN NoChange
        ELSE [emitted |-> TRUE,
              changedFields |-> getChangedFields(current, l.returned)]

\* The debounce timer of handleConfigChange() fires: loadConfig(), and, unless
\* it returned null, the 'configChange' event and its handler.
Reload(file) ==
    LET l == loadConfig(file, watcherConfig)
    IN  /\ watcherConfig' = l.stored
        /\ IF l.isNull
           THEN UNCHANGED <<listenerConfig, subs, fetching, config, notifierConfig,
                            processedBlocks>>
           ELSE OnConfigChange(l.returned)
        /\ lastReload' = Outcome(file)
        /\ lastEmit' = NoEmit
        /\ result' = NoVerdict
        /\ lastHash' = 0
        /\ UNCHANGED <<processedTxHashes, lastAlertTime, now, handlerVars,
                       historyVars, tokenMeta, scans, listenerVars, notifierVars,
                       storageVars, feedVars, shutdownVars, lastLag, cacheVars,
                       droppedBlocks>>

\* fetchTokenMetadata() of updateConfig() settles: the metadata of the token
\* it asked for (the defaults, if the calls failed) replace the current ones,
\* and updateConfig() goes on to subscribe().  When the Contract cannot be
\* constructed the outer catch (lines 113-115) only logs, and the fields
\* keep their values.
MetadataFetched(tok, ok) ==
    /\ tok \in fetching
    /\ fetching' = fetching \ {tok}
    /\ tokenMeta' = IF tok \notin Tokens THEN tokenMeta
                    ELSE IF ok THEN tok ELSE "default"
    /\ subs' = IF isConnected THEN listenerSubscribe(listenerConfig, subs) ELSE subs
    /\ UNCHANGED <<pipelineVars, listenerVars, notifierVars, sideVars, watcherConfig,
                   listenerConfig, notifierConfig, scans, lastEmit, lastReload>>

\* Variant: the disabled entries of the watch list count as well.
isWatchedWallet_all(cfg, from, to) ==
    \/ Len(cfg.watchedWallets) = 0
    \/ toLowerCase(from) \in normalizedWatched_all(cfg.watchedWallets)
    \/ toLowerCase(to) \in normalizedWatched_all(cfg.watchedWallets)

\* isWatchedWallet(from, to)
isWatchedWallet(cfg, from, to) ==
    \/ Len(cfg.watchedWallets) = 0
    \/ toLowerCase(from) \in normalizedWatched(cfg.watchedWallets)
    \/ toLowerCase(to) \in normalizedWatched(cfg.watchedWallets)

\* The transfers the chain delivers while the configuration changes.
ReloadHashes == {1, 2}
ReloadEvents ==
    { Ev(h, p[1], p[2], "5.0") :
        h \in ReloadHashes, p \in {<<"0xAA", "0xBB">>, <<"0xBB", "0xBB">>} }

\* A listener passes a transfer on: the pre-filter, and for a watched wallet
\* the 'transfer' event and its handler.
Emit(event, emit) ==
    IF isWatchedWallet(listenerConfig, event.from, event.to)
    THEN /\ OnTransfer(event)
         /\ lastEmit' = emit
    ELSE /\ lastEmit' = NoEmit
         /\ UNCHANGED pipelineVars

\* handleTokenTransferEvent(log), called by the log listener of a contract.
TokenLog(contract, event) ==
    /\ contract \in subs.tokens
    /\ Emit(event, [kind |-> "token", contract |-> contract, meta |-> tokenMeta])
    /\ UNCHANGED <<listenerVars, notifierVars, storageVars, feedVars, shutdownVars,
                   watcherConfig, listenerConfig,
                   notifierConfig, subs, fetching, tokenMeta, scans, lastReload>>

\* The 'block' listener: processBlockForEthTransfers() starts and awaits
\* getBlock().
BlockArrives ==
    /\ subs.eth
    /\ scans < MaxScans
    /\ scans' = scans + 1
    /\ UNCHANGED <<pipelineVars, listenerVars, notifierVars, sideVars, watcherConfig,
                   listenerConfig, notifierConfig, subs, fetching, tokenMeta,
                   lastEmit, lastReload>>

\* getBlock() resolves with a block of one transaction that carries value:
\* handleEthTransfer(tx).
BlockFetched(event) ==
    /\ scans > 0
    /\ scans' = scans - 1
    /\ Emit(event, [kind |-> "eth", contract |-> "none", meta |-> "ETH"])
    /\ UNCHANGED <<listenerVars, notifierVars, sideVars, watcherConfig, listenerConfig,
                   notifierConfig, subs, fetching, tokenMeta, lastReload>>

NextReload ==
    \/ \E file \in FileContents : Reload(file) /\ UNCHANGED reloadVars
    \/ \E tok \in Tokens : \E ok \in BOOLEAN : MetadataFetched(tok, ok)
    \/ \E contract \in Tokens : \E event \in ReloadEvents :
          TokenLog(contract, event) /\ UNCHANGED chainVars
    \/ BlockArrives
    \/ \E event \in ReloadEvents : BlockFetched(event)
    \/ \E h \in Hashes : Dispatch(h)
    \/ \E h \in Hashes : AlertReturns(h)

\* The application after initialize(): connected, subscribed for the loaded
\* configuration, with the metadata of its token.
InitApp(cfg) ==
    /\ config = cfg
    /\ InitPipeline
    /\ InitNotifier
    /\ InitSide
    /\ reconnectAttempts = 0
    /\ isConnected = TRUE
    /\ provider = 1
    /\ sockets = [c \in SocketSlots |->
                    IF c = 1 THEN [sock |-> "open", call |-> "ok", subscribed |-> TRUE]
                    ELSE FreeSlot]
    /\ timers = 0
    /\ emitted = << >>
    /\ failedEmitted = FALSE
    /\ fails = 0
    /\ lastDelay = 0
    /\ watcherConfig = config
    /\ listenerConfig = config
    /\ notifierConfig = config
    /\ subs = listenerSubscribe(config, NoSubs)
    /\ fetching = {}
    /\ tokenMeta = config.tokenContract
    /\ scans = 0
    /\ lastEmit = NoEmit
    /\ lastReload = "none"

InitReload == \E cfg \in WatchConfigs : InitApp(cfg)

SpecReload == InitReload /\ [][NextReload]_vars

\* ------------------------------------------- the 'configChange' events
\* The debounce timer fires, with the event it emits recorded.
ReloadNotifies(file) ==
    /\ Reload(file)
    /\ configChange' = handleConfigChange(file, watcherConfig)

NextConfigChange ==
    \/ \E file \in FileContents : ReloadNotifies(file)
    \/ \E tok \in Tokens : \E ok \in BOOLEAN : MetadataFetched(tok, ok)

SpecConfigChange == InitReload /\ [][NextConfigChange]_vars

\* The application after initialize(), up to its shutdown.
InitShutdown ==
    InitReload /\ config = validateConfig(WatchConfig("0xT1", "eth", ScenarioConfig)).config

SpecShutdown == InitShutdown /\ [][NextShutdown]_vars

\* ------------------------------------------------------ the pre-filter
\* The config.json files that differ in their watch list, threshold and
\* cooldown only.
WatchFiles == { JsonFile(WatchConfig("0xT1", "all", cfg)) : cfg \in Configs }

\* The raw candidates the chain delivers: token logs and native transactions.
WatchEvents == { Ev(h, p[1], p[2], "5.0") : h \in ReloadHashes, p \in AddrPairs }

NextWatch ==
    \/ \E file \in WatchFiles : Reload(file) /\ UNCHANGED reloadVars
    \/ \E contract \in Tokens : \E event \in WatchEvents :
          TokenLog(contract, event) /\ UNCHANGED chainVars
    \/ BlockArrives
    \/ \E event \in WatchEvents : BlockFetched(event)
    \/ \E h \in Hashes : Dispatch(h)
    \/ \E h \in Hashes : AlertReturns(h)

\* The application after initialize(), tracking the token 0xT1 and native
\* transfers.
InitWatch ==
    InitApp(validateConfig(WatchConfig("0xT1", "all", ScenarioConfig)).config)

SpecWatch == InitWatch /\ [][NextWatch]_vars

\* ------------------------------------------------- the recent blocks
\* The block numbers the transport delivers.
Blocks == 1..NumBlocks

\* Variant: no block number is ever removed from the set.
recentBlocks_noDrop(blocks, blockNumber) ==
    IF blockNumber \in Range(blocks)
    THEN [scan |-> FALSE, blocks |-> blocks, dropped |-> {}]
    ELSE [scan |-> TRUE, blocks |-> Append(blocks, blockNumber), dropped |-> {}]

\* The 'block' listener up to its await: a block number in processedBlocks
\* ends the callback; another one is added, and when the set then holds more
\* than MaxRecentBlocks numbers its DropBlocks oldest are deleted.
recentBlocks(blocks, blockNumber) ==
    IF blockNumber \in Range(blocks)
    THEN [scan |-> FALSE, blocks |-> blocks, dropped |-> {}]
    ELSE LET added == Append(blocks, blockNumber)
         IN  IF Len(added) > MaxRecentBlocks
             THEN [scan |-> TRUE,
                   blocks |-> SubSeq(added, DropBlocks + 1, Len(added)),
                   dropped |-> {added[i] : i \in 1..DropBlocks}]
             ELSE [scan |-> TRUE, blocks |-> added, dropped |-> {}]

\* The 'block' listener is called with blockNumber: unless the number is in
\* processedBlocks, processBlockForEthTransfers() starts and awaits
\* getBlock().
BlockCallback(blockNumber) ==
    LET r == recentBlocks(processedBlocks, blockNumber)
    IN  /\ subs.eth
        /\ r.scan => scans < MaxScans
        /\ processedBlocks' = r.blocks
        /\ droppedBlocks' = r.dropped
        /\ scans' = IF r.scan THEN scans + 1 ELSE scans
        /\ UNCHANGED <<pipelineVars, listenerVars, notifierVars, storageVars,
                       feedVars, shutdownVars, lastLag, cacheVars, reloadVars,
                       watcherConfig, listenerConfig, notifierConfig, subs,
                       fetching, tokenMeta, lastEmit, lastReload>>

NextBlocks ==
    \/ \E blockNumber \in Blocks : BlockCallback(blockNumber)
    \/ \E event \in ReloadEvents : BlockFetched(event)
    \/ \E h \in Hashes : Dispatch(h)
    \/ \E h \in Hashes : AlertReturns(h)

\* The application after initialize(), tracking native transfers.
InitBlocks ==
    InitApp(validateConfig(WatchConfig("0xT1", "eth", ScenarioConfig)).config)

SpecBlocks == InitBlocks /\ [][NextBlocks]_vars

\* ------------------------------------------------- the token metadata
\* A config.json whose tokenContract is the number 12345.
BadTokenFile == JsonFile(WatchConfig(BadToken, "token", Cfg("0", << >>, "0")))

MetadataFiles ==
    { JsonFile(WatchConfig("0xT1", "token", Cfg("0", << >>, "0"))),
      JsonFile(WithDepth(WatchConfig("0xT2", "token", Cfg("0", << >>, "0")), "5")),
      BadTokenFile }

NextMetadata ==
    \/ \E file \in MetadataFiles : Reload(file) /\ UNCHANGED reloadVars
    \/ \E tok \in Tokens \cup {BadToken} : \E ok \in BOOLEAN : MetadataFetched(tok, ok)
    \/ \E contract \in Tokens : \E event \in ReloadEvents :
          TokenLog(contract, event) /\ UNCHANGED chainVars
    \/ \E h \in Hashes : Dispatch(h)
    \/ \E h \in Hashes : AlertReturns(h)

\* The application after initialize() with the token 0xT1.
InitMetadata ==
    InitReload /\ config.tokenContract = "0xT1" /\ config.trackingMode = "token"

SpecMetadata == InitMetadata /\ [][NextMetadata]_vars

\* ------------------------------------------- confirmations of a transfer
\* The 'Transfer' log listener is called for a log of a block the chain head
\* is lag blocks past (0: the log is in the newest block).
LogArrives(contract, event, lag) ==
    /\ TokenLog(contract, event)
    /\ lastLag' = lag
    /\ UNCHANGED <<cacheVars, blockVars, reloadVars>>

NextConfirm ==
    \/ \E contract \in Tokens : \E event \in ReloadEvents : \E lag \in 0..MaxLag :
          LogArrives(contract, event, lag)
    \/ \E h \in Hashes : Dispatch(h)
    \/ \E h \in Hashes : AlertReturns(h)

\* The application after initialize() with a token configuration, one of
\* them with confirmationDepth 5.
InitConfirm ==
    InitReload /\ config.trackingMode = "token"

SpecConfirm == InitConfirm /\ [][NextConfirm]_vars

\* ------------------------------------------------------- the notifier
\* Math.pow(2, n)
RECURSIVE Pow2(_)
Pow2(n) == IF n <= 0 THEN 1 ELSE 2 * Pow2(n - 1)

\* The messages of the errors bot.sendMessage rejects with, each named by
\* the marker it includes, and two that include none of the markers.
ErrorMsgs ==
    { "ECONNRESET", "ETIMEDOUT", "ENOTFOUND", "socket hang up", "network",
      "Bad Request", "Unknown error" }

\* errorMsg.includes(...) for the five markers of a network error
isNetworkError(errorMsg) ==
    \/ errorMsg = "ECONNRESET"
    \/ errorMsg = "ETIMEDOUT"
    \/ errorMsg = "ENOTFOUND"
    \/ errorMsg = "socket hang up"
    \/ errorMsg = "network"

\* Variant: one delay for both kinds of error.
backoffDelay_same(attempt, errorMsg) ==
    Pow2(attempt - 1) * BackoffUnitMs

\* The delay before the next attempt, in ms.
backoffDelay(attempt, errorMsg) ==
    IF isNetworkError(errorMsg)
    THEN Pow2(attempt) * BackoffUnitMs
    ELSE Pow2(attempt - 1) * BackoffUnitMs

\* initialize(): the bot is created when the token and the chat id are set.
Initialize(ok) ==
    /\ ~notifierEnabled
    /\ notifierEnabled' = ok
    /\ UNCHANGED <<alertCall, alertResult, alertCount>>
    /\ UNCHANGED <<pipelineVars, listenerVars, watcherVars, sideVars>>

\* The sendAlert() calls that have not returned.
Running == Cardinality({h \in AlertHashes : alertCall[h].phase # "idle"})

\* sendAlert(event) up to its first await: 'disabled' is returned at once;
\* otherwise the message is formatted and attempt 1 calls bot.sendMessage.
CallSendAlert(h) ==
    /\ alertCall[h].phase = "idle"
    /\ alertCount + Running < MaxAlerts
    /\ IF ~notifierEnabled
       THEN /\ alertResult' = [alertResult EXCEPT ![h] =
                                 [result |-> "disabled", sends |-> 0]]
            /\ UNCHANGED alertCall
       ELSE /\ alertCall' = [alertCall EXCEPT ![h] =
                               [phase |-> "sending", attempt |-> 1,
                                error |-> "none", delay |-> 0]]
            /\ alertResult' = [alertResult EXCEPT ![h] = NoResult]
    /\ UNCHANGED <<notifierEnabled, alertCount>>
    /\ UNCHANGED <<pipelineVars, listenerVars, watcherVars, sideVars>>

\* bot.sendMessage resolves: lastAlertSent, alertCount++, return
\* {success: true}.
SendSucceeds(h) ==
    /\ alertCall[h].phase = "sending"
    /\ alertCount' = alertCount + 1
    /\ alertCall' = [alertCall EXCEPT ![h] = NoCall]
    /\ alertResult' = [alertResult EXCEPT ![h] =
                         [result |-> "success", sends |-> alertCall[h].attempt]]
    /\ UNCHANGED notifierEnabled
    /\ UNCHANGED <<pipelineVars, listenerVars, watcherVars, sideVars>>

\* Variant: the delay and the next attempt follow every failure.
SendFails_alwaysRetry(h) ==
    /\ alertCall[h].phase = "sending"
    /\ alertCall' = [alertCall EXCEPT ![h].phase = "waiting"]
    /\ UNCHANGED <<notifierEnabled, alertResult, alertCount>>
    /\ UNCHANGED <<pipelineVars, listenerVars, watcherVars, sideVars>>

\* bot.sendMessage rejects: the catch logs, and waits for the backoff delay
\* if attempt < retries; after the last attempt the loop ends and
\* {success: false, reason: 'max_retries_exceeded'} is returned.
SendFails(h) ==
    /\ alertCall[h].phase = "sending"
    /\ IF alertCall[h].attempt < retries
       THEN /\ \E errorMsg \in ErrorMsgs :
                 alertCall' = [alertCall EXCEPT ![h] =
                                 [phase |-> "waiting", attempt |-> @.attempt,
                                  error |-> errorMsg,
                                  delay |-> backoffDelay(@.attempt, errorMsg)]]
            /\ UNCHANGED alertResult
       ELSE /\ alertCall' = [alertCall EXCEPT ![h] = NoCall]
            /\ alertResult' = [alertResult EXCEPT ![h] =
                                 [result |-> "max_retries_exceeded",
                                  sends |-> alertCall[h].attempt]]
    /\ UNCHANGED <<notifierEnabled, alertCount>>
    /\ UNCHANGED <<pipelineVars, listenerVars, watcherVars, sideVars>>

\* The backoff delay ends: the next attempt calls bot.sendMessage.
DelayElapses(h) ==
    /\ alertCall[h].phase = "waiting"
    /\ alertCall' = [alertCall EXCEPT ![h] =
                       [phase |-> "sending", attempt |-> @.attempt + 1,
                        error |-> "none", delay |-> 0]]
    /\ UNCHANGED <<notifierEnabled, alertResult, alertCount>>
    /\ UNCHANGED <<pipelineVars, listenerVars, watcherVars, sideVars>>

NextNotifier ==
    \/ \E ok \in BOOLEAN : Initialize(ok)
    \/ \E h \in AlertHashes : CallSendAlert(h)
    \/ \E h \in AlertHashes : SendSucceeds(h)
    \/ \E h \in AlertHashes : SendFails(h)
    \/ \E h \in AlertHashes : DelayElapses(h)

InitNotifierSpec == Init /\ config = ScenarioConfig

SpecNotifier == InitNotifierSpec /\ [][NextNotifier]_vars

\* ------------------------------------------------------------ the store
\* The events the handler stores.
StoredEvents == 1..NumStored

\* The step by which the clock of the store moves.
TimeStep == 500

\* Variant: the event is appended, and the oldest entries are kept.
addEvent_push(evs, event) ==
    LET all == evs \o <<event>>
    IN  IF Len(all) > MAX_EVENTS THEN SubSeq(all, 1, MAX_EVENTS) ELSE all

\* addEvent(event): unshift, then slice(0, MAX_EVENTS)
addEvent(evs, event) ==
    LET all == <<event>> \o evs
    IN  IF Len(all) > MAX_EVENTS THEN SubSeq(all, 1, MAX_EVENTS) ELSE all

\* The timer this.saveTimeout refers to, if it is pending: the one created
\* last, which has the most time left.
Newest(pending) == {r \in pending : \A q \in pending : q <= r}

\* Variant: the pending timer is not cleared.
saveAsync_noClear(pending) == pending \cup {SaveDelay}

\* saveAsync(): clearTimeout(this.saveTimeout), then a new timer of 1000 ms
saveAsync(pending) == (pending \ Newest(pending)) \cup {SaveDelay}

\* storage.addEvent(event)
AddEvent(event) ==
    /\ events' = addEvent(events, event)
    /\ saveTimers' = saveAsync(saveTimers)
    /\ sinceAdd' = 0
    /\ lastAdded' = event
    /\ burst' = IF saveTimers = {} THEN 1 ELSE Min(burst + 1, 2)
    /\ UNCHANGED written
    /\ UNCHANGED <<coreVars, feedVars, shutdownVars, chainVars>>

\* Time passes; a timer fires when its delay has elapsed.
StorageTick ==
    /\ saveTimers # {}
    /\ \A r \in saveTimers : r >= TimeStep
    /\ saveTimers' = {r - TimeStep : r \in saveTimers}
    /\ sinceAdd' = Min(sinceAdd + TimeStep, SaveDelay)
    /\ UNCHANGED <<events, written, lastAdded, burst>>
    /\ UNCHANGED <<coreVars, feedVars, shutdownVars, chainVars>>

\* The timer of saveAsync() fires: save() writes this.events.
SaveFires ==
    /\ 0 \in saveTimers
    /\ saveTimers' = saveTimers \ {0}
    /\ written' = events
    /\ UNCHANGED <<events, sinceAdd, lastAdded, burst>>
    /\ UNCHANGED <<coreVars, feedVars, shutdownVars, chainVars>>

\* clear(): the events are dropped and save() is called at once.
StorageClear ==
    /\ events # << >>
    /\ events' = << >>
    /\ written' = << >>
    /\ UNCHANGED <<saveTimers, sinceAdd, lastAdded, burst>>
    /\ UNCHANGED <<coreVars, feedVars, shutdownVars, chainVars>>

NextStorage ==
    \/ \E event \in StoredEvents : AddEvent(event)
    \/ StorageTick
    \/ SaveFires
    \/ StorageClear

InitStorageSpec == Init /\ config = ScenarioConfig

SpecStorage == InitStorageSpec /\ [][NextStorage]_vars

\* The store with its timers running: time passes while a timer is pending,
\* and a timer whose delay has elapsed fires.  Nothing bounds how often or
\* how closely addEvent() is called.
SpecStorageFair ==
    /\ InitStorageSpec
    /\ [][NextStorage]_vars
    /\ WF_vars(StorageTick)
    /\ WF_vars(SaveFires)

\* -------------------------------------------------------- the live feed
\* wss.on('connection'): the socket joins this.clients; ws.isAlive is not
\* set.
FeedConnect(c) ==
    /\ feed[c].status # "open"
    /\ feed' = [feed EXCEPT ![c] = [NoSocket EXCEPT !.status = "open"]]
    /\ clients' = clients \cup {c}
    /\ UNCHANGED <<coreVars, storageVars, shutdownVars, chainVars>>

\* ws.on('close'): the subscriber has gone.
FeedClose(c) ==
    /\ feed[c].status = "open"
    /\ feed' = [feed EXCEPT ![c] = [NoSocket EXCEPT !.status = "closed"]]
    /\ clients' = clients \ {c}
    /\ UNCHANGED <<coreVars, storageVars, shutdownVars, chainVars>>

\* ws.on('pong'): the subscriber answers the ping.
FeedPong(c) ==
    /\ feed[c].status = "open"
    /\ feed[c].pinged
    /\ feed' = [feed EXCEPT ![c].isAlive = "true", ![c].pinged = FALSE,
                            ![c].silent = 0]
    /\ UNCHANGED clients
    /\ UNCHANGED <<coreVars, storageVars, shutdownVars, chainVars>>

\* Variant: the tick pings without marking the socket.
probe_noMark(ws) ==
    IF ws.status # "open" THEN ws
    ELSE IF ws.isAlive = "false"
    THEN [NoSocket EXCEPT !.status = "terminated"]
    ELSE [ws EXCEPT !.pinged = TRUE, !.silent = Min(@ + 1, 2)]

\* The body of the keepalive interval for one socket of wss.clients: a socket
\* whose isAlive is false is terminated, any other is marked and pinged.
probe(ws) ==
    IF ws.status # "open" THEN ws
    ELSE IF ws.isAlive = "false"
    THEN [NoSocket EXCEPT !.status = "terminated"]
    ELSE [ws EXCEPT !.isAlive = "false", !.pinged = TRUE,
                    !.silent = Min(@ + 1, 2)]

\* The keepalive interval fires.
FeedProbe ==
    /\ \E c \in Sockets : feed[c].status = "open"
    /\ feed' = [c \in Sockets |-> probe(feed[c])]
    /\ clients' = {c \in clients : probe(feed[c]).status = "open"}
    /\ UNCHANGED <<coreVars, storageVars, shutdownVars, chainVars>>

NextFeed ==
    \/ \E c \in Sockets : FeedConnect(c)
    \/ \E c \in Sockets : FeedClose(c)
    \/ \E c \in Sockets : FeedPong(c)
    \/ FeedProbe

InitFeedSpec == Init /\ config = ScenarioConfig

SpecFeed == InitFeedSpec /\ [][NextFeed]_vars

\* ================================================================ properties

\* What filter(e) returns when it is called in the current state.
FilterNow(e) == filter(config, processedTxHashes, lastAlertTime, e, now)

\* The position of hash h in the insertion order, and the number of hashes
\* inserted after it that are still in the set.
IndexOf(seen, h) == CHOOSE i \in 1..Len(seen) : seen[i] = h
Newer(seen, h) == Len(seen) - IndexOf(seen, h)

\* C1 as stated: a hash that has been filtered is still in the seen-set after
\* any further filter() call, so that a second event with it gets 'duplicate'
\* however many events with other hashes are filtered in between.
C1_DedupRegardless ==
    \A e \in Events : \A g \in Range(processedTxHashes) :
        isDuplicate(FilterNow(e).seen, g)

\* C1 amended: filter() answers 'duplicate' exactly for a hash that is in the
\* seen-set, the hash of every filtered event is in the set after the call,
\* and a hash with fewer than maxCacheSize - EvictCount newer hashes in the
\* set survives the call; so e2 gets 'duplicate' when at most
\* maxCacheSize - EvictCount other new hashes were filtered since e1.
C1_DedupWithinWindow ==
    \A e \in Events :
        LET r == FilterNow(e)
        IN  /\ (r.verdict.reason = "duplicate"
                  <=> e.transactionHash \in Range(processedTxHashes))
            /\ e.transactionHash \in Range(r.seen)
            /\ \A g \in Range(processedTxHashes) :
                 Newer(processedTxHashes, g) < maxCacheSize - EvictCount
                 => g \in Range(r.seen)

\* A 'duplicate' verdict for a hash that maxCacheSize - EvictCount other
\* hashes were admitted after.
C1_Witness ==
    /\ result.reason = "duplicate"
    /\ lastHash \in Range(processedTxHashes)
    /\ Newer(processedTxHashes, lastHash) = maxCacheSize - EvictCount

\* C2: no hash is passed more than once to any sink while it stays in the
\* seen-set.
C2_NoDoubleDispatch ==
    \A s \in Sinks : \A h \in Hashes : dispatched[s][h] <= 1

\* The reason of the first check, in the order duplicate, threshold,
\* watch list, cooldown, that the event fails in the current state.
FirstFailing(e) ==
    IF isDuplicate(processedTxHashes, e.transactionHash) THEN "duplicate"
    ELSE IF ~checkThreshold(config, e.amount).passed THEN "below_threshold"
    ELSE IF ~checkWatchedWallets(config, e.from, e.to).passed THEN "not_watched"
    ELSE IF ~checkCooldown(config, lastAlertTime, e.from, e.to, now).passed
         THEN "cooldown"
    ELSE "matched"

\* C3: the verdict's reason is that of the first failing check in the order
\* duplicate, threshold, watch list, cooldown; it is 'matched' with
\* passed = true only if all four pass.
C3_CheckOrder ==
    \A e \in Events :
        LET v == FilterNow(e).verdict
        IN  /\ v.reason = FirstFailing(e)
            /\ (v.passed <=> v.reason = "matched")

\* A 'below_threshold' verdict under a config whose watch list rejects every
\* event: the event failed two checks and the earlier one is reported.
C3_Witness ==
    /\ result.reason = "below_threshold"
    /\ Len(config.watchedWallets) > 0
    /\ normalizedWatched(config.watchedWallets) = {}

\* C4: a 'duplicate' verdict leaves the seen-set and the cooldown map as they
\* were and has passed = false and showInUI = false.
C4_DuplicateFrame ==
    \A e \in Events :
        LET r == FilterNow(e)
        IN  r.verdict.reason = "duplicate"
            => /\ r.seen = processedTxHashes
               /\ r.alerts = lastAlertTime
               /\ ~r.verdict.passed
               /\ ~r.verdict.showInUI

\* A 'duplicate' verdict while both caches hold entries.
C4_Witness ==
    /\ result.reason = "duplicate"
    /\ Len(processedTxHashes) >= 2
    /\ DOMAIN lastAlertTime # {}

\* C5: whatever the non-duplicate verdict, the event's hash is in the seen-set
\* after the call, so that a re-delivery of the event gets 'duplicate'.
C5_MarkedWhateverVerdict ==
    \A e \in Events :
        LET r == FilterNow(e)
        IN  r.verdict.reason # "duplicate"
            => /\ e.transactionHash \in Range(r.seen)
               /\ \A e2 \in Events :
                    e2.transactionHash = e.transactionHash
                    => filter(config, r.seen, r.alerts, e2, now)
                         .verdict.reason = "duplicate"

\* An event that failed the watch-list check and whose hash is recorded.
C5_Witness ==
    /\ result.reason = "not_watched"
    /\ isDuplicate(processedTxHashes, lastHash)

\* The cooldown in force, in milliseconds.
CooldownMs(cfg) ==
    IF cfg.cooldownSeconds \in NumericStrings
    THEN NumericValue(cfg.cooldownSeconds) * 1000
    ELSE 0

\* C6: with cooldownSeconds > 0, a non-duplicate, above-threshold, watched
\* event gets 'cooldown' exactly when one of its addresses was part of a
\* 'matched' event less than cooldownSeconds ago.
C6_CooldownBoundary ==
    \A e \in Events :
        LET v == FilterNow(e).verdict
            touched == {toLowerCase(e.from), toLowerCase(e.to)}
        IN  (CooldownMs(config) > 0 /\ v.reason \in {"cooldown", "matched"})
            => (v.reason = "cooldown"
                  <=> \E a \in touched \cap DOMAIN lastMatched :
                        now - lastMatched[a] < CooldownMs(config))

\* C7: the section 8 scenario yields matched, duplicate, cooldown, matched.
C7_Scenario ==
    /\ scen = 1 => (result.reason = "matched" /\ result.passed)
    /\ scen = 2 => result.reason = "duplicate"
    /\ scen = 3 => result.reason = "cooldown"
    /\ scen = 4 => (result.reason = "matched" /\ result.passed)

\* The scenario has run to its fourth event.
C7_Witness == scen = 4 /\ now = 61001

\* An entry of the watch list that is enabled and names address a.
EnabledFor(w, a) ==
    /\ (w.kind = "string" \/ w.enabled # "false")
    /\ toLowerCase(w.address) = toLowerCase(a)

\* C8: the watch-list check passes iff the list is empty or from or to is,
\* whatever its case, the address of an enabled entry.
C8_WatchList ==
    \A from \in AddrStrings : \A to \in AddrStrings :
        LET ww == config.watchedWallets
        IN  checkWatchedWallets(config, from, to).passed
            <=> \/ ww = << >>
                \/ \E i \in 1..Len(ww) :
                     EnabledFor(ww[i], from) \/ EnabledFor(ww[i], to)

\* A 'not_watched' verdict under a non-empty list whose entries are all
\* disabled, one of which names an address the events carry.
C8_Witness ==
    /\ result.reason = "not_watched"
    /\ Len(config.watchedWallets) > 0
    /\ \A i \in 1..Len(config.watchedWallets) :
         config.watchedWallets[i].enabled = "false"

\* The threshold in force: the number in thresholdAmount, 0 if there is none.
ThresholdOf(cfg) ==
    IF cfg.thresholdAmount \in NumericStrings
    THEN NumericValue(cfg.thresholdAmount)
    ELSE 0

\* C9: the threshold check passes iff the amount is at least the threshold,
\* and an amount that passes a threshold passes every lower one.
C9_Threshold ==
    \A a \in AmountStrings :
        /\ checkThreshold(config, a).passed <=> NumericValue(a) >= ThresholdOf(config)
        /\ \A higher \in Configs :
             (ThresholdOf(higher) >= ThresholdOf(config)
              /\ checkThreshold(higher, a).passed)
             => checkThreshold(config, a).passed

\* A 'below_threshold' verdict under a positive threshold.
C9_Witness ==
    /\ result.reason = "below_threshold"
    /\ ThresholdOf(config) > 0

\* C10: the handler takes every event whose verdict is not 'duplicate' on
\* towards the live feed: it stays in flight until broadcastTransfer.
C10_NonDuplicateReachesFeed ==
    [][\A e \in Events :
         (OnTransfer(e) /\ result'.reason # "duplicate")
         => /\ result'.showInUI
            /\ enriching'[e.transactionHash] = enriching[e.transactionHash] + 1]_vars

\* C11: notifier.sendAlert is called for an event only if the event's filter
\* verdict was 'matched': a handler activation reaches sendAlert only out of
\* the activations suspended before the sinks, and an activation is suspended
\* there only by a filter() call on its event that returned 'matched'.
C11_AlertOnlyForMatched ==
    [][\A h \in Hashes :
         /\ alerting'[h] > alerting[h]
              => enriching'[h] = enriching[h] - 1
         /\ enriching'[h] > enriching[h]
              => /\ result'.reason = "matched"
                 /\ result'.passed
                 /\ lastHash' = h]_vars

\* sendAlert is running for one event while the last verdict, of another
\* event, is 'below_threshold'.
C11_Witness ==
    /\ \E h \in Hashes : alerting[h] > 0 /\ h # lastHash
    /\ result.reason = "below_threshold"

\* A connect() call that has not returned yet, or a websocket that can
\* still open.
ConnectPending ==
    \E c \in SocketSlots :
        \/ sockets[c].call \in {"network", "metadata"}
        \/ sockets[c].sock = "connecting"

\* C12: 'failed' is emitted only after maxReconnectAttempts consecutive
\* connection failures, and once it has been emitted no reconnect timer is
\* pending and no connect() call is running or is made later.
C12_FailedIsTerminal ==
    failedEmitted
    => /\ fails >= maxReconnectAttempts
       /\ timers = 0
       /\ ~ConnectPending

\* C13: when connect() succeeds the attempt counter is 0, and a connect()
\* call that fails has not reset the counter: its websocket never opened.
C13_ResetOnlyOnSuccess ==
    [][\A c \in SocketSlots :
         /\ MetadataDone(c) => reconnectAttempts' = 0
         /\ NetworkRejects(c)
              => sockets[c].sock \notin {"open", "closedAfterOpen"}]_vars

\* C14: the 'close' handler emits 'disconnected' first and then starts the
\* reconnection (a timer, or 'failed' at the limit), and when a connect()
\* call succeeds on a websocket that is still open, the subscribe() that
\* follows leaves this.provider with its listeners.
C14_CloseThenResubscribe ==
    [][\A c \in SocketSlots :
         /\ (\E settles \in BOOLEAN : SocketClose(c, settles))
              => /\ emitted'[1] = "disconnected"
                 /\ (timers' = timers + 1 \/ emitted' = <<"disconnected", "failed">>)
         /\ (MetadataDone(c) /\ sockets[c].sock = "open")
              => sockets'[provider'].subscribed]_vars

\* C15: a change of tokenContract or trackingMode is atomic for the events:
\* an ETH transfer is emitted only while the mode tracks ETH, a token transfer
\* only while the mode tracks tokens, from the log listener of the configured
\* contract and with the metadata of that contract (or the defaults).
C15_NoMixedConfig ==
    /\ lastEmit.kind = "eth" => trackingMode(listenerConfig) # "token"
    /\ lastEmit.kind = "token" =>
         /\ trackingMode(listenerConfig) # "eth"
         /\ lastEmit.contract = listenerConfig.tokenContract
         /\ lastEmit.meta \in {lastEmit.contract, "default"}

\* C16: a reload that is rejected (required field missing, or the file does
\* not parse) leaves the configuration of the watcher, the listener, the
\* filter and the notifier as it was, and that configuration is a valid one.
C16_RejectedReloadKeepsConfig ==
    [][lastReload' = "rejected" =>
         /\ watcherConfig' = watcherConfig
         /\ listenerConfig' = listenerConfig
         /\ config' = config
         /\ notifierConfig' = notifierConfig
         /\ watcherConfig' \in WatchConfigs]_vars

C16_Witness ==
    /\ lastReload = "rejected"
    /\ watcherConfig = validateConfig(WatchConfig("0xT2", "absent", Cfg("0", << >>, "0"))).config

\* C17: whenever a transfer can be pre-filtered or filtered, the listener, the
\* filter and the notifier hold the same configuration snapshot.
C17_SameSnapshot ==
    /\ listenerConfig = config
    /\ notifierConfig = config
    /\ watcherConfig = config

C17_Witness ==
    /\ lastReload = "accepted"
    /\ lastEmit.kind = "token"
    /\ fetching # {}
    /\ result.reason = "matched"

\* C18: a sink that throws does not keep the other sinks from being called:
\* every activation of the handler that reaches the sinks calls
\* storage.addEvent, broadcastTransfer and notifier.sendAlert.
C18_SinkIsolation ==
    [][\A h \in Hashes :
         enriching'[h] < enriching[h] => alerting'[h] = alerting[h] + 1]_vars

\* C19: when sendAlert is called for an event, storage.addEvent has been
\* called for it (the event's hash being still in the dedup cache, where the
\* calls are counted).
C19_StoredBeforeAlert ==
    [][\A h \in Hashes :
         (alerting'[h] > alerting[h] /\ isDuplicate(processedTxHashes, h))
           => dispatched'["addEvent"][h] >= 1]_vars

C19_Witness ==
    \E h \in Hashes :
       /\ alerting[h] > 0
       /\ dispatched["addEvent"][h] >= 1
       /\ dispatched["sendAlert"][h] >= 1

\* C20: a sendAlert() call makes at most retries (5) attempts; it returns
\* {success: true} at its first successful send, and 'max_retries_exceeded'
\* after exactly retries failed sends; once it has returned it sends nothing.
C20_BoundedRetries ==
    [][\A h \in AlertHashes :
         /\ alertCall'[h].attempt <= retries
         /\ alertResult'[h].result # "none" => alertCall'[h].phase = "idle"
         /\ alertResult'[h].result = "success" => alertResult'[h].sends \in 1..retries
         /\ alertResult'[h].result = "max_retries_exceeded"
              => alertResult'[h].sends = retries
         /\ alertResult'[h].result = "disabled" => alertResult'[h].sends = 0
         /\ (alertCount' > alertCount /\ alertCall'[h] # alertCall[h])
              => alertResult'[h].result = "success"]_vars

C20_Witness ==
    \E h, g \in AlertHashes :
       /\ alertResult[h].result = "max_retries_exceeded"
       /\ alertResult[g] = [result |-> "success", sends |-> 3]

\* C21: a sendAlert() call that has not returned keeps no other event from
\* the filter nor from the sinks: while an alert is pending for a, every
\* delivered event with another hash can be filtered, and every such event
\* that waits for its enrichment can be stored and broadcast.
C21_AlertDoesNotBlock ==
    \A a \in Hashes :
       alerting[a] > 0 =>
         /\ Inflight < MaxInflight =>
              \A e \in HandlerEvents :
                 e.transactionHash # a =>
                   ENABLED (OnTransfer(e) /\ UNCHANGED otherVars)
         /\ \A b \in Hashes \ {a} : enriching[b] > 0 => ENABLED Dispatch(b)

\* Two alerts are pending at once: the event of the later one was filtered,
\* stored and broadcast while the earlier one had not returned.
C21_Witness ==
    \E a, b \in Hashes :
       /\ a # b
       /\ alerting[a] > 0
       /\ alerting[b] > 0
       /\ \A s \in Sinks : dispatched[s][a] = 1 /\ dispatched[s][b] = 1

\* A step of addEvent(): the store has a new head or, when full, the same
\* length.
Added == events' # events /\ events' # << >>

\* C22: the store is newest first and bounded: it never holds more than
\* MAX_EVENTS events; after addEvent(e) its first event is e, the events
\* behind it are the former ones in their former order, and only the oldest
\* are dropped, and only when the bound is exceeded.
C22_NewestFirstBounded ==
    [][/\ Len(events') <= MAX_EVENTS
       /\ lastAdded' # lastAdded \/ sinceAdd' < sinceAdd \/ Added =>
            /\ events'[1] = lastAdded'
            /\ Len(events') = Min(Len(events) + 1, MAX_EVENTS)
            /\ Tail(events') = SubSeq(events, 1, Len(events') - 1)]_vars

C22_Witness ==
    /\ events = <<2, 1, 1>>
    /\ lastAdded = 2
    /\ written = <<1, 1, 2>>

\* C23: the writes are coalesced: at most one timer of saveAsync() is
\* pending; addEvent() writes nothing and leaves one timer of 1 s; the timer
\* writes only when 1 s has passed since the last addEvent(), it writes all
\* of this.events, and it leaves no timer behind.
C23_CoalescedWrites ==
    [][/\ Cardinality(saveTimers') <= 1
       /\ Cardinality(saveTimers') < Cardinality(saveTimers) =>
            /\ sinceAdd = SaveDelay
            /\ written' = events'
            /\ saveTimers' = {}
       /\ (sinceAdd' = 0 /\ events' # << >>) =>
            /\ written' = written
            /\ saveTimers' = {SaveDelay}]_vars

C23_Witness ==
    /\ burst = 2
    /\ saveTimers = {}
    /\ sinceAdd = SaveDelay
    /\ Len(events) = MAX_EVENTS
    /\ written = events

\* C24: a subscriber stays connected through at most one probe tick that it
\* does not answer: the second such tick terminates it and removes it from
\* the subscribers; and probing terminates only a subscriber that has left
\* the ping of the tick before unanswered.
C24_BoundedGrace ==
    [][\A c \in Sockets :
         /\ feed'[c].status = "open" => feed'[c].silent <= 1
         /\ c \in clients' => feed'[c].status = "open"
         /\ feed'[c].status = "terminated" /\ feed[c].status = "open" =>
              /\ feed[c].pinged
              /\ feed[c].silent = 1
              /\ c \notin clients']_vars

C24_Witness ==
    \E c, d \in Sockets :
       /\ feed[c].status = "terminated"
       /\ feed[d].status = "open"
       /\ feed[d].isAlive = "true"
       /\ clients = {d}

\* C25: once disconnect() has been called no reconnect is scheduled and
\* connect() is not called again.
C25_NoReconnectAfterShutdown ==
    [][stopped =>
         /\ timers' <= timers
         /\ \A c \in SocketSlots :
              sockets'[c].sock = "connecting" => sockets[c].sock = "connecting"]_vars

\* C26: a transfer that has reached a sink (the store, the live feed, the
\* notifier) was emitted for a block the chain head was at least
\* confirmationDepth blocks past.
C26_ConfirmedBeforeDispatch ==
    \A h \in Hashes :
       /\ lastEmit.kind # "none"
       /\ lastHash = h
       /\ result.passed
       /\ \E s \in Sinks : dispatched[s][h] > 0
       => lastLag >= NumericValue(listenerConfig.confirmationDepth)

\* C27: a reload that finds a config.json with trackingMode 'eth' and an
\* empty tokenContract makes that file, with its defaults filled in, the
\* configuration in effect, and so does the loadConfig() of the startup.
C27_EthOnlyAccepted ==
    [][Reload(EthOnlyFile) =>
         /\ watcherConfig' = validateConfig(EthOnlyFile.obj).config
         /\ listenerConfig' = watcherConfig'
         /\ ~loadConfig(EthOnlyFile, NoConfig).isNull
         /\ loadConfig(EthOnlyFile, NoConfig).stored # NoConfig]_vars

\* C28: a metadata fetch that fails, because its calls fail or because the
\* fetch as a whole throws, leaves the listener with the default metadata.
C28_DefaultsAfterFailedFetch ==
    [][\A tok \in Tokens \cup {BadToken} : \A ok \in BOOLEAN :
         (MetadataFetched(tok, ok) /\ (~ok \/ tok \notin Tokens)) =>
            tokenMeta' = "default"]_vars

\* C29: a token log or a native transaction is passed on as a 'transfer'
\* event iff the watch list of the listener's configuration is empty or from
\* or to is the address of an enabled entry; a candidate that is not passed
\* on changes nothing downstream.
C29_OnlyWatchedEmitted ==
    [][\A event \in WatchEvents :
         ((\E contract \in Tokens : TokenLog(contract, event)) \/ BlockFetched(event)) =>
            LET ww == listenerConfig.watchedWallets
                watched == \/ ww = << >>
                           \/ \E i \in 1..Len(ww) :
                                EnabledFor(ww[i], event.from) \/ EnabledFor(ww[i], event.to)
            IN  /\ lastEmit' # NoEmit <=> watched
                /\ ~watched => UNCHANGED pipelineVars
                /\ watched => lastHash' = event.transactionHash]_vars

C29_Witness ==
    /\ lastEmit.kind = "eth"
    /\ Len(listenerConfig.watchedWallets) = 3
    /\ lastHash \in Hashes
    /\ result.passed

\* C30: whenever a reconnect timer is set, it is the next attempt on the
\* counter, its number k is in 1..maxReconnectAttempts, its delay is
\* reconnectDelay * k and longer than the delay of the attempt before it;
\* the counter moves up only by setting a timer.
C30_LinearBackoff ==
    [][/\ timers' > timers =>
            /\ timers' = timers + 1
            /\ reconnectAttempts' = reconnectAttempts + 1
            /\ reconnectAttempts' \in 1..maxReconnectAttempts
            /\ lastDelay' = reconnectDelay * reconnectAttempts'
            /\ lastDelay' > lastDelay
       /\ reconnectAttempts' > reconnectAttempts => timers' = timers + 1
       /\ reconnectAttempts' <= maxReconnectAttempts]_vars

C30_Witness ==
    /\ reconnectAttempts = maxReconnectAttempts
    /\ lastDelay = reconnectDelay * maxReconnectAttempts
    /\ timers > 0

\* The delays of the claim, in ms, after the failed attempts 1..4.
NetworkDelays == <<2000, 4000, 8000, 16000>>
OtherDelays == <<1000, 2000, 4000, 8000>>
NetworkClass == {"ECONNRESET", "ETIMEDOUT", "ENOTFOUND", "socket hang up", "network"}

\* C31: a failed attempt k < retries is followed by a wait of 2^k s for an
\* error of the network class and of 2^(k-1) s for another error; the wait
\* grows with k, is longer for the network class, and the last attempt is
\* followed by no wait.
C31_BackoffDelays ==
    [][\A h \in AlertHashes :
         /\ (alertCall[h].phase = "sending" /\ alertCall'[h].phase = "waiting") =>
               LET k == alertCall[h].attempt
                   e == alertCall'[h].error
               IN  /\ k < retries
                   /\ alertCall'[h].attempt = k
                   /\ alertCall'[h].delay =
                        IF e \in NetworkClass THEN NetworkDelays[k] ELSE OtherDelays[k]
                   /\ k > 1 => alertCall'[h].delay > backoffDelay(k - 1, e)
                   /\ backoffDelay(k, "network") > backoffDelay(k, "Bad Request")
         /\ (alertCall[h].phase = "sending" /\ alertCall[h].attempt = retries)
               => alertCall'[h].phase # "waiting"
         /\ alertCall'[h].phase # "waiting" => alertCall'[h].delay = 0]_vars

C31_Witness ==
    \E h, g \in AlertHashes :
       /\ alertCall[h] = [phase |-> "waiting", attempt |-> 4, error |-> "network",
                          delay |-> 16000]
       /\ alertCall[g] = [phase |-> "waiting", attempt |-> 4, error |-> "Bad Request",
                          delay |-> 8000]

\* C32: the seen-hash set never holds more than maxCacheSize hashes; a new
\* hash that finds it full removes exactly its EvictCount oldest hashes in
\* that one call and is then added, and is not one of the removed; a new
\* hash that finds room removes nothing.
C32_BoundedSeenSet ==
    [][/\ Len(processedTxHashes') <= maxCacheSize
       /\ processedTxHashes' # processedTxHashes =>
            /\ lastHash' \notin Range(processedTxHashes)
            /\ lastHash' \notin evicted'
            /\ IF Len(processedTxHashes) = maxCacheSize
               THEN /\ evicted' = {processedTxHashes[i] : i \in 1..EvictCount}
                    /\ Cardinality(evicted') = EvictCount
                    /\ processedTxHashes' =
                         Append(SubSeq(processedTxHashes, EvictCount + 1,
                                       Len(processedTxHashes)), lastHash')
               ELSE /\ evicted' = {}
                    /\ processedTxHashes' = Append(processedTxHashes, lastHash')]_vars

C32_Witness ==
    /\ Cardinality(evicted) = EvictCount
    /\ Len(processedTxHashes) = maxCacheSize - EvictCount + 1
    /\ processedTxHashes[Len(processedTxHashes)] = lastHash

\* C33: a block number that is in the recent-block set when it is delivered
\* starts no scan and changes nothing; another one is added and scanned; the
\* set holds at most MaxRecentBlocks numbers after every callback, loses
\* its DropBlocks oldest numbers when the addition exceeds that, and never
\* loses the number just added.
C33_BlockDedup ==
    [][\A b \in Blocks :
         BlockCallback(b) =>
           /\ Len(processedBlocks') <= MaxRecentBlocks
           /\ b \in Range(processedBlocks')
           /\ b \notin droppedBlocks'
           /\ IF b \in Range(processedBlocks)
              THEN scans' = scans /\ processedBlocks' = processedBlocks
              ELSE /\ scans' = scans + 1
                   /\ IF Len(processedBlocks) = MaxRecentBlocks
                      THEN /\ droppedBlocks' =
                                {processedBlocks[i] : i \in 1..DropBlocks}
                           /\ processedBlocks' =
                                Append(SubSeq(processedBlocks, DropBlocks + 1,
                                              Len(processedBlocks)), b)
                      ELSE /\ droppedBlocks' = {}
                           /\ processedBlocks' = Append(processedBlocks, b)]_vars

C33_Witness ==
    /\ droppedBlocks # {}
    /\ Len(processedBlocks) = MaxRecentBlocks
    /\ scans = 1

\* The wallets of the event that has just matched.
JustMatched == {a \in DOMAIN lastMatched' : lastMatched'[a] = now}

\* C34: a filter() call with the verdict 'matched' sets the cooldown entry of
\* from and of to to the current time, removes the other entries that are
\* more than one hour old and keeps the rest; a call with another verdict,
\* and every other step, leaves the cooldown map as it is.
C34_CooldownWrittenOnMatch ==
    [][IF now' = now /\ result'.reason = "matched"
       THEN /\ JustMatched # {}
            /\ \A a \in JustMatched :
                 a \in DOMAIN lastAlertTime' /\ lastAlertTime'[a] = now
            /\ DOMAIN lastAlertTime' \subseteq DOMAIN lastAlertTime \cup JustMatched
            /\ \A a \in DOMAIN lastAlertTime \ JustMatched :
                 IF lastAlertTime[a] < now - OneHourMs
                 THEN a \notin DOMAIN lastAlertTime'
                 ELSE a \in DOMAIN lastAlertTime'
                      /\ lastAlertTime'[a] = lastAlertTime[a]
       ELSE lastAlertTime' = lastAlertTime]_vars

C34_Witness ==
    /\ result.reason = "matched"
    /\ now = 3600002
    /\ \E a \in DOMAIN lastMatched : a \notin DOMAIN lastAlertTime
    /\ \E a \in DOMAIN lastAlertTime : lastAlertTime[a] = now

\* The step replaced tokenContract or trackingMode of the listener's config.
TokenOrModeChanged ==
    \/ listenerConfig'.tokenContract # listenerConfig.tokenContract
    \/ listenerConfig'.trackingMode # listenerConfig.trackingMode

\* C35: a config change of tokenContract or trackingMode removes every
\* subscription, empties the recent-block set and starts a metadata fetch,
\* and when the last pending fetch settles the subscriptions are exactly
\* those of the current config; any other config change leaves the
\* subscriptions, the recent-block set and the token metadata as they were.
C35_ResubscribeIffChanged ==
    [][ /\ TokenOrModeChanged =>
              /\ subs' = NoSubs
              /\ processedBlocks' = << >>
              /\ listenerConfig'.tokenContract \in fetching'
        /\ (listenerConfig' # listenerConfig /\ ~TokenOrModeChanged) =>
              UNCHANGED <<subs, processedBlocks, tokenMeta, fetching>>
        /\ (fetching # {} /\ fetching' = {} /\ isConnected) =>
              subs' = listenerSubscribe(listenerConfig, NoSubs) ]_vars

\* C36: on the current provider no token contract has more than one log
\* listener and 'block' has at most one listener.
C36_SingleListeners ==
    /\ subs.dupTokens = {}
    /\ ~subs.dupEth

\* C37: at most one reconnect timer is pending at any time and
\* reconnectAttempts never exceeds maxReconnectAttempts.
C37_OneTimerPending ==
    /\ timers <= 1
    /\ reconnectAttempts <= maxReconnectAttempts

\* C38: events are stored and broadcast in the order of their delivery: when
\* the handler of the event delivered last (a matched one) resumes and calls
\* storage.addEvent, no handler of an earlier event is still enriching.
C38_DispatchInOrder ==
    [][ \A h \in Hashes :
          ( /\ enriching'[h] < enriching[h]
            /\ lastHash = h
            /\ result.passed )
          => \A g \in Hashes \ {h} : enriching[g] = 0 ]_vars

\* C39: a rejected reload emits no 'configChange' event.
C39_RejectedReloadSilent ==
    lastReload = "rejected" => ~configChange.emitted

\* C40: whenever a save is pending (an event was added and not yet written),
\* the file eventually holds the events of the store.
C40_EventuallySaved ==
    (saveTimers # {}) ~> (written = events)

====
